---- MODULE Spec2Model ----
(***************************************************************************)
(* Model of the FamilyMart ice-cream map: the store-data worker            *)
(* (src/src/worker/store.worker.js), StoreService, MapController,          *)
(* LocationService, NotificationService and the App controller.            *)
(*                                                                         *)
(* JavaScript values are records tagged by their type in field t.  A       *)
(* string is a sequence of characters; a character of the CJK marker text  *)
(* is written by its pinyin name ("te","shu","zao","xing").  A finite      *)
(* number is a decimal m * 10^-e with no trailing fractional zero, which   *)
(* is exact for every literal the model parses.                            *)
(***************************************************************************)
EXTENDS Integers, Sequences, FiniteSets, TLC

VARIABLES
    norm,      \* one normalizeStoreData / icon-selection run: [raw, out, icon]
    ingest,    \* one fetchAndProcessStores run: [response, message]
    calls,     \* StoreService.fetchStores calls, one worker each
    app,       \* App + MapController marker layer + LoadingController
    loc,       \* MapController location state + LocationService + geolocation API
    notif,     \* NotificationService
    sw,        \* the service worker: its caches and the fetch events it handles
    now        \* Date.now(), in milliseconds

vars == <<norm, ingest, calls, app, loc, notif, sw, now>>

-----------------------------------------------------------------------------
(* JavaScript values *)

Undef == [t |-> "undefined"]
Null == [t |-> "null"]
Bool(b) == [t |-> "boolean", b |-> b]
Str(s) == [t |-> "string", s |-> s]
NaN == [t |-> "number", k |-> "NaN", m |-> 0, e |-> 0]
Infinity == [t |-> "number", k |-> "Infinity", m |-> 0, e |-> 0]
NegInfinity == [t |-> "number", k |-> "-Infinity", m |-> 0, e |-> 0]
Arr(a) == [t |-> "array", a |-> a]
Obj(o) == [t |-> "object", o |-> o]
\* Array.prototype.keys, what `rawData.keys` reads on an array payload
BuiltinFunction == [t |-> "function"]

\* the decimal m * 10^-e, fractional zeros stripped
RECURSIVE Num(_, _)
Num(m, e) ==
    IF e > 0 /\ m % 10 = 0 THEN Num(m \div 10, e - 1)
    ELSE [t |-> "number", k |-> "finite", m |-> m, e |-> e]

\* ToBoolean: undefined, null, false, 0, NaN and "" are falsy
ToBoolean(v) ==
    CASE v.t = "undefined" -> FALSE
      [] v.t = "null" -> FALSE
      [] v.t = "boolean" -> v.b
      [] v.t = "number" -> ~(v.k = "NaN" \/ (v.k = "finite" /\ v.m = 0))
      [] v.t = "string" -> v.s # <<>>
      [] OTHER -> TRUE

\* a || b
Or(a, b) == IF ToBoolean(a) THEN a ELSE b

isNaN(v) == v.t = "number" /\ v.k = "NaN"
isFinite(v) == v.t = "number" /\ v.k = "finite"

Digits == {"0", "1", "2", "3", "4", "5", "6", "7", "8", "9"}

DigitVal(c) ==
    CASE c = "0" -> 0 [] c = "1" -> 1 [] c = "2" -> 2 [] c = "3" -> 3
      [] c = "4" -> 4 [] c = "5" -> 5 [] c = "6" -> 6 [] c = "7" -> 7
      [] c = "8" -> 8 [] c = "9" -> 9

\* the number of consecutive digits of s from position i on
RECURSIVE DigitRun(_, _)
DigitRun(s, i) ==
    IF i <= Len(s) /\ s[i] \in Digits THEN 1 + DigitRun(s, i + 1) ELSE 0

\* the value of the n digits of s from position i on, appended to acc
RECURSIVE DigitsValue(_, _, _, _)
DigitsValue(s, i, n, acc) ==
    IF n = 0 THEN acc ELSE DigitsValue(s, i + 1, n - 1, acc * 10 + DigitVal(s[i]))

RECURSIVE TrimStart(_)
TrimStart(s) == IF s # <<>> /\ s[1] = " " THEN TrimStart(Tail(s)) ELSE s

StartsWith(s, p) == Len(s) >= Len(p) /\ SubSeq(s, 1, Len(p)) = p

InfinityText == <<"I", "n", "f", "i", "n", "i", "t", "y">>

\* parseFloat of a string: leading blanks are skipped, then the longest
\* prefix [+-] (Infinity | digits [. digits] | . digits) is read and the rest
\* of the text is ignored; no such prefix gives NaN.  (Exponent parts are not
\* read: no text of the model carries one.)
parseFloatString(s) ==
    LET t == TrimStart(s)
        signed == t # <<>> /\ t[1] \in {"-", "+"}
        neg == t # <<>> /\ t[1] = "-"
        u == IF signed THEN Tail(t) ELSE t
        ni == DigitRun(u, 1)
        hasDot == Len(u) > ni /\ u[ni + 1] = "."
        nf == IF hasDot THEN DigitRun(u, ni + 2) ELSE 0
        mant == DigitsValue(u, ni + 2, nf, DigitsValue(u, 1, ni, 0))
    IN  IF StartsWith(u, InfinityText) THEN (IF neg THEN NegInfinity ELSE Infinity)
        ELSE IF ni = 0 /\ nf = 0 THEN NaN
        ELSE Num(IF neg THEN 0 - mant ELSE mant, nf)

\* parseFloat(v) is parseFloat(String(v)): a number reads back as itself,
\* the text of undefined, null, a boolean or an object starts with no number
parseFloat(v) ==
    CASE v.t = "string" -> parseFloatString(v.s)
      [] v.t = "number" -> v
      [] OTHER -> NaN

\* s.includes(sub) on strings
Includes(s, sub) ==
    \E i \in 0..(Len(s) - Len(sub)) : SubSeq(s, i + 1, i + Len(sub)) = sub

-----------------------------------------------------------------------------
(* Configuration: src/src/js/config.js *)

MARKERS_BLUE == <<"b", "l", "u", "e">>
MARKERS_RED == <<"r", "e", "d">>
MARKERS_BLUE_STRIPED == <<"b", "l", "u", "e", "-", "s", "t", "r", "i", "p", "e", "d">>
MARKERS_RED_STRIPED == <<"r", "e", "d", "-", "s", "t", "r", "i", "p", "e", "d">>
MARKERS_DEFAULT == <<"b", "l", "u", "e">>
COLORS_BLUE == <<"#", "2", "b", "8", "2", "c", "b">>
COLORS_RED == <<"#", "e", "0", "4", "e", "3", "9">>

\* the config StoreService passes to the worker
workerConfig ==
    [MARKERS |-> [BLUE |-> MARKERS_BLUE, RED |-> MARKERS_RED,
                  BLUE_STRIPED |-> MARKERS_BLUE_STRIPED,
                  RED_STRIPED |-> MARKERS_RED_STRIPED,
                  DEFAULT |-> MARKERS_DEFAULT],
     COLORS |-> [BLUE |-> COLORS_BLUE, RED |-> COLORS_RED]]

\* '特殊造型'
SpecialShapeText == <<"te", "shu", "zao", "xing">>
RedText == <<"r", "e", "d">>
UnknownStore == <<"U", "n", "k", "n", "o", "w", "n", " ", "S", "t", "o", "r", "e">>

-----------------------------------------------------------------------------
(* Normalization: src/src/worker/store.worker.js, normalizeStoreData *)

\* the property names a raw record is read or built with
PropNames == {"NAME", "py", "px", "addr", "TEL", "flavorType", "markerColor",
              "last_updated"}

\* v.p: reading a property of null or undefined throws, a primitive has none
\* of the record's properties
CanRead(v) == v.t \notin {"null", "undefined"}
GetProp(v, p) ==
    IF v.t = "object" /\ p \in DOMAIN v.o THEN v.o[p]
    ELSE IF v.t = "array" /\ p = "keys" THEN BuiltinFunction
    ELSE Undef

\* x.includes is a function on strings only (the model holds no array field)
HasIncludes(v) == v.t = "string"

Threw(message) == [threw |-> message]
Rejected == [isValid |-> FALSE]

hasCoordinatesNoPx(rawStore) ==
    /\ ToBoolean(GetProp(rawStore, "py"))
    /\ ~isNaN(parseFloat(GetProp(rawStore, "py")))

hasCoordinates(rawStore) ==
    /\ ToBoolean(GetProp(rawStore, "py"))
    /\ ToBoolean(GetProp(rawStore, "px"))
    /\ ~isNaN(parseFloat(GetProp(rawStore, "py")))
    /\ ~isNaN(parseFloat(GetProp(rawStore, "px")))

displayColorBySpecialShape(markerColor, isSpecialShape, config) ==
    IF Includes(markerColor, RedText) /\ ~isSpecialShape
    THEN config.COLORS.RED ELSE config.COLORS.BLUE

displayColorOf(markerColor, isSpecialShape, config) ==
    IF Includes(markerColor, RedText) THEN config.COLORS.RED ELSE config.COLORS.BLUE

normalizeStoreData(rawStore, config) ==
    IF ~CanRead(rawStore) THEN Threw("TypeError")
    ELSE IF ~hasCoordinates(rawStore) THEN Rejected
    ELSE
        LET flavorType == Or(GetProp(rawStore, "flavorType"), Str(<<>>))
            markerColor == Or(GetProp(rawStore, "markerColor"), Str(config.MARKERS.DEFAULT))
        IN  IF ~HasIncludes(flavorType) \/ ~HasIncludes(markerColor)
            THEN Threw("TypeError")
            ELSE
                LET isSpecialShape == Includes(flavorType.s, SpecialShapeText)
                IN  [name |-> Or(GetProp(rawStore, "NAME"), Str(UnknownStore)),
                     latitude |-> parseFloat(GetProp(rawStore, "py")),
                     longitude |-> parseFloat(GetProp(rawStore, "px")),
                     address |-> Or(GetProp(rawStore, "addr"), Str(<<>>)),
                     phone |-> Or(GetProp(rawStore, "TEL"), Str(<<>>)),
                     flavorType |-> flavorType,
                     markerColor |-> markerColor,
                     isSpecialShape |-> isSpecialShape,
                     displayColor |-> displayColorOf(markerColor.s, isSpecialShape, config),
                     isValid |-> TRUE]

IsThrow(r) == "threw" \in DOMAIN r

-----------------------------------------------------------------------------
(* Ingestion: src/src/worker/store.worker.js, fetchAndProcessStores *)

isArray(v) == v.t = "array"

\* row[index], index counted from 1 here
Index(row, index) ==
    CASE row.t = "array" -> IF index <= Len(row.a) THEN row.a[index] ELSE Undef
      [] row.t = "string" -> IF index <= Len(row.s) THEN Str(<<row.s[index]>>) ELSE Undef
      [] OTHER -> Undef

\* const storeObj = {}
EmptyObject == [p \in PropNames |-> Undef]

RECURSIVE forEachKeyShifted(_, _, _, _)
forEachKeyShifted(storeObj, keys, row, index) ==
    IF index > Len(keys) THEN storeObj
    ELSE forEachKeyShifted([storeObj EXCEPT ![keys[index]] = Index(row, index + 1)],
                           keys, row, index + 1)

\* keys.forEach((key, index) => { storeObj[key] = row[index]; }), from `index` on
RECURSIVE forEachKey(_, _, _, _)
forEachKey(storeObj, keys, row, index) ==
    IF index > Len(keys) THEN storeObj
    ELSE forEachKey([storeObj EXCEPT ![keys[index]] = Index(row, index)],
                    keys, row, index + 1)

\* the callback of rawData.data.map: keys.forEach is no function unless keys is
\* an array, and row[index] throws on a null row
rowToStore(keys, row, config) ==
    IF ~isArray(keys) THEN Threw("TypeError")
    ELSE IF keys.a # <<>> /\ ~CanRead(row) THEN Threw("TypeError")
    ELSE normalizeStoreData(Obj(forEachKey(EmptyObject, keys.a, row, 1)), config)

\* .filter(store => store.isValid), in order
RECURSIVE filterValidDropLast(_)
filterValidDropLast(results) ==
    IF results = <<>> THEN <<>>
    ELSE IF Len(results) > 1 /\ Head(results).isValid
         THEN <<Head(results)>> \o filterValidDropLast(Tail(results))
         ELSE filterValidDropLast(Tail(results))

RECURSIVE filterValid(_)
filterValid(results) ==
    IF results = <<>> THEN <<>>
    ELSE IF Head(results).isValid
         THEN <<Head(results)>> \o filterValid(Tail(results))
         ELSE filterValid(Tail(results))

SuccessNoTimestamp(stores, lastUpdated) ==
    [type |-> "SUCCESS", payload |-> [stores |-> stores, lastUpdated |-> Str(<<>>)]]

Success(stores, lastUpdated) ==
    [type |-> "SUCCESS", payload |-> [stores |-> stores, lastUpdated |-> lastUpdated]]
Error(message) == [type |-> "ERROR", error |-> message]

\* a map whose callback threw ends the try block; otherwise filter and post
postStores(results, lastUpdated) ==
    IF \E i \in 1..Len(results) : IsThrow(results[i]) THEN Error("TypeError")
    ELSE Success(filterValid(results), lastUpdated)

\* a response of fetch(config.DATA_URL): "failed" (fetch rejected), "notok"
\* (!response.ok), "badjson" (response.json() rejected) or "ok" with rawData
Response(status, rawData) == [status |-> status, rawData |-> rawData]

\* the message fetchAndProcessStores posts for a response
fetchAndProcessStores(config, response) ==
    IF response.status = "failed" THEN Error("Failed to fetch")
    ELSE IF response.status = "notok" THEN Error("Network response was not ok")
    ELSE IF response.status = "badjson" THEN Error("SyntaxError")
    ELSE
        LET rawData == response.rawData
        IN  IF ~CanRead(rawData) THEN Error("TypeError")
            ELSE IF ToBoolean(GetProp(rawData, "keys")) /\ isArray(GetProp(rawData, "data"))
            THEN
                LET keys == GetProp(rawData, "keys")
                    data == GetProp(rawData, "data").a
                IN  postStores([i \in 1..Len(data) |-> rowToStore(keys, data[i], config)],
                               Or(GetProp(rawData, "last_updated"), Str(<<>>)))
            ELSE IF isArray(rawData)
            THEN
                IF rawData.a # <<>> /\ ~CanRead(rawData.a[1]) THEN Error("TypeError")
                ELSE
                    LET lastUpdated ==
                            IF rawData.a # <<>>
                               /\ ToBoolean(GetProp(rawData.a[1], "last_updated"))
                            THEN GetProp(rawData.a[1], "last_updated")
                            ELSE Str(<<>>)
                    IN  postStores([i \in 1..Len(rawData.a) |->
                                       normalizeStoreData(rawData.a[i], config)],
                                   lastUpdated)
            ELSE Error("Invalid data format")

-----------------------------------------------------------------------------
(* Icon selection: src/src/js/controllers/MapController.js *)

\* the keys _initIcons fills this.icons with
IconKeys == {MARKERS_BLUE, MARKERS_RED, MARKERS_BLUE_STRIPED, MARKERS_RED_STRIPED}

\* this.icons[store.markerColor] || this.icons[CONFIG.MARKERS.DEFAULT], by key
iconKeyOf(store) ==
    IF store.markerColor.t = "string" /\ store.markerColor.s \in IconKeys
    THEN store.markerColor.s ELSE MARKERS_DEFAULT

-----------------------------------------------------------------------------
(* Popup content: src/src/js/config.js, UIHelpers *)

Amp == <<"&", "a", "m", "p", ";">>
Lt == <<"&", "l", "t", ";">>
Gt == <<"&", "g", "t", ";">>
Quot == <<"&", "q", "u", "o", "t", ";">>
Apos == <<"&", "#", "0", "3", "9", ";">>

\* s.replace(/c/g, to) for a one-character pattern
RECURSIVE ReplaceAll(_, _, _)
ReplaceAll(s, c, to) ==
    IF s = <<>> THEN <<>>
    ELSE (IF Head(s) = c THEN to ELSE <<Head(s)>>) \o ReplaceAll(Tail(s), c, to)

\* s.replace(pattern, to) for a string pattern: the first occurrence only
RECURSIVE ReplaceFirst(_, _, _)
ReplaceFirst(s, pattern, to) ==
    IF Len(s) < Len(pattern) THEN s
    ELSE IF SubSeq(s, 1, Len(pattern)) = pattern
    THEN to \o SubSeq(s, Len(pattern) + 1, Len(s))
    ELSE <<Head(s)>> \o ReplaceFirst(Tail(s), pattern, to)

escapeHtmlAmpLast(text) ==
    IF ~ToBoolean(text) THEN <<>>
    ELSE ReplaceAll(ReplaceAll(ReplaceAll(ReplaceAll(ReplaceAll(text.s,
            "<", Lt), ">", Gt), "\"", Quot), "'", Apos), "&", Amp)

\* UIHelpers.escapeHtml of a text field: five replace passes, & first
escapeHtml(text) ==
    IF ~ToBoolean(text) THEN <<>>
    ELSE ReplaceAll(ReplaceAll(ReplaceAll(ReplaceAll(ReplaceAll(text.s,
            "&", Amp), "<", Lt), ">", Gt), "\"", Quot), "'", Apos)

\* encodeURIComponent of one character of the texts used here: letters and
\* - _ . ! ~ * ' ( ) stay, the others become %XX
encodeChar(c) ==
    CASE c = "&" -> <<"%", "2", "6">>
      [] c = "<" -> <<"%", "3", "C">>
      [] c = ">" -> <<"%", "3", "E">>
      [] c = "\"" -> <<"%", "2", "2">>
      [] c = " " -> <<"%", "2", "0">>
      [] OTHER -> <<c>>

RECURSIVE encodeURIComponent(_)
encodeURIComponent(s) ==
    IF s = <<>> THEN <<>> ELSE encodeChar(Head(s)) \o encodeURIComponent(Tail(s))

MapsSearchUrl == <<"https://www.google.com/maps/search/">>
SpaceParen == <<" ", "(">>
BreakParen == <<"<", "b", "r", ">", "(">>

\* UIHelpers.createStorePopupContent: what the template embeds, in order: the
\* href of the link, the link text, the flavor line, the address, the phone
createStorePopupContent(store) ==
    [href |-> MapsSearchUrl \o encodeURIComponent(store.name.s),
     name |-> escapeHtml(store.name),
     flavor |-> IF store.isSpecialShape
                THEN ReplaceFirst(escapeHtml(store.flavorType), SpaceParen, BreakParen)
                ELSE escapeHtml(store.flavorType),
     address |-> escapeHtml(store.address),
     phone |-> escapeHtml(store.phone)]

-----------------------------------------------------------------------------
(* Raw values the model draws records from *)

\* "25.03", "121.5", "bad", "12abc", "Infinity", " -7.50"
Text2503 == <<"2", "5", ".", "0", "3">>
Text1215 == <<"1", "2", "1", ".", "5">>
TextBad == <<"b", "a", "d">>
Text12abc == <<"1", "2", "a", "b", "c">>
TextNeg750 == <<" ", "-", "7", ".", "5", "0">>
\* "單口味", "雙口味 特殊造型 (圓)", "RED", "A"
TextSingleFlavor == <<"dan", "kou", "wei">>
TextDualSpecial ==
    <<"shuang", "kou", "wei", " ", "te", "shu", "zao", "xing", " ", "(", "yuan", ")">>
TextUpperRed == <<"R", "E", "D">>
TextA == <<"A">>

\* a py or px value; Undef stands for a field the record lacks
CoordValues ==
    {Undef, Null, Bool(TRUE), Str(<<>>), Num(0, 0), Num(2503, 2), Str(Text2503),
     Str(Text1215), Str(TextBad), Str(Text12abc), Str(InfinityText), Str(TextNeg750)}

FlavorValues == {Undef, Str(TextSingleFlavor), Str(TextDualSpecial), Num(7, 0)}

ColorValues ==
    {Undef, Str(<<>>), Str(MARKERS_BLUE), Str(MARKERS_RED), Str(MARKERS_BLUE_STRIPED),
     Str(MARKERS_RED_STRIPED), Str(TextUpperRed), Num(5, 0)}

NameValues == {Undef, Str(TextA)}

\* the object {NAME, py, px, flavorType, markerColor}
RawStore(name, py, px, flavorType, markerColor) ==
    Obj([p \in PropNames |->
            CASE p = "NAME" -> name
              [] p = "py" -> py
              [] p = "px" -> px
              [] p = "flavorType" -> flavorType
              [] p = "markerColor" -> markerColor
              [] OTHER -> Undef])

RawStores ==
    {RawStore(n, py, px, f, c) :
        n \in NameValues, py \in CoordValues, px \in CoordValues,
        f \in FlavorValues, c \in ColorValues}

-----------------------------------------------------------------------------
(* One normalization run, then the icon renderMarkers picks for the record *)

Pending == [pending |-> TRUE]
NoIcon == <<>>
NormIdle == [raw |-> Undef, out |-> Pending, icon |-> NoIcon]

IsStore(r) == "isValid" \in DOMAIN r /\ r.isValid

Normalize ==
    /\ norm.raw # Undef
    /\ norm.out = Pending
    /\ norm' = [norm EXCEPT !.out = normalizeStoreData(norm.raw, workerConfig)]
    /\ UNCHANGED <<sw, ingest, calls, app, loc, notif, now>>

SelectIcon ==
    /\ IsStore(norm.out)
    /\ norm.icon = NoIcon
    /\ norm' = [norm EXCEPT !.icon = iconKeyOf(norm.out)]
    /\ UNCHANGED <<sw, ingest, calls, app, loc, notif, now>>

-----------------------------------------------------------------------------
(* Payloads the model draws responses from *)

\* the longest `data` or legacy array drawn
MaxRows == 2

Text2024 == <<"2", "0", "2", "4">>

KeyLists ==
    {<<>>,
     <<"NAME", "py", "px", "flavorType", "markerColor">>,
     <<"NAME", "py", "px">>,
     <<"NAME", "px", "py">>,
     <<"py", "px", "py">>,
     <<"last_updated", "py", "px">>}

\* a `keys` value: a key list, a truthy value that is no list, or a falsy one
KeysValues == {Arr(k) : k \in KeyLists} \cup {Str(<<"N", "A", "M", "E">>), Num(5, 0), Undef, Null}

Rows ==
    {Arr(<<Str(TextA), Str(Text2503), Str(Text1215), Str(TextSingleFlavor), Str(MARKERS_BLUE)>>),
     Arr(<<Str(TextA), Str(TextBad), Str(Text1215), Str(TextDualSpecial), Str(MARKERS_RED)>>),
     Arr(<<Str(Text2024), Str(Text1215), Str(Text2503), Str(TextDualSpecial), Str(MARKERS_RED)>>),
     Arr(<<Str(TextA), Str(InfinityText), Str(Text1215), Str(TextSingleFlavor),
           Str(MARKERS_RED_STRIPED)>>),
     Arr(<<Str(TextA), Num(2503, 2), Num(1215, 1), Num(7, 0), Str(MARKERS_BLUE)>>),
     Arr(<<Str(TextA), Str(Text2503)>>),
     Arr(<<>>),
     Null}

\* every sequence over S of length at most n
RECURSIVE SeqsUpTo(_, _)
SeqsUpTo(S, n) ==
    IF n = 0 THEN {<<>>}
    ELSE LET shorter == SeqsUpTo(S, n - 1)
         IN  shorter \cup {Append(q, x) : q \in shorter, x \in S}

DataValues == {Arr(d) : d \in SeqsUpTo(Rows, MaxRows)} \cup {Undef, Str(TextBad)}

Columnar(keys, data, lastUpdated) ==
    Obj([p \in {"keys", "data", "last_updated"} |->
            CASE p = "keys" -> keys [] p = "data" -> data [] OTHER -> lastUpdated])

ColumnarPayloads ==
    {Columnar(k, d, u) : k \in KeysValues, d \in DataValues, u \in {Undef, Str(Text2024)}}

\* a legacy element that carries last_updated beside its fields
WithLastUpdated(store, lastUpdated) ==
    Obj([store.o EXCEPT !["last_updated"] = lastUpdated])

LegacyElements ==
    {WithLastUpdated(RawStore(Str(TextA), Str(Text2503), Str(Text1215),
                              Str(TextDualSpecial), Str(MARKERS_RED)), Str(Text2024)),
     WithLastUpdated(RawStore(Undef, Undef, Undef, Undef, Undef), Str(Text2024)),
     RawStore(Str(TextA), Str(Text2503), Str(Text1215), Str(TextSingleFlavor), Str(MARKERS_BLUE)),
     RawStore(Str(TextA), Str(TextBad), Str(Text1215), Str(TextSingleFlavor), Undef),
     RawStore(Undef, Str(InfinityText), Str(Text1215), Undef, Str(MARKERS_RED_STRIPED)),
     RawStore(Str(TextA), Num(2503, 2), Num(1215, 1), Num(7, 0), Str(MARKERS_BLUE)),
     Num(3, 0),
     Null}

LegacyPayloads == {Arr(d) : d \in SeqsUpTo(LegacyElements, MaxRows)}

\* parsed JSON of neither shape
OtherPayloads == {Null, Bool(TRUE), Num(5, 0), Str(TextBad), Obj([p \in {"stores"} |-> Arr(<<>>)])}

Responses ==
    {Response(st, Undef) : st \in {"failed", "notok", "badjson"}}
        \cup {Response("ok", r) : r \in ColumnarPayloads \cup LegacyPayloads \cup OtherPayloads}

-----------------------------------------------------------------------------
(* One popup built for a store record *)

\* the longest name
MaxText == 2

TextChars == {"a", "&", "<", ">", "\"", "'"}

\* a flavor line: empty, plain, with ' (' once and twice, with markup
FlavorTexts ==
    {<<>>, <<"a">>, <<"a", " ", "(", "a", ")">>,
     <<"<", " ", "(", "&", " ", "(", "'">>, <<"\"", ">">>, <<"&", "l", "t", ";">>}

PopupStores ==
    {[name |-> Str(name), flavorType |-> Str(flavor), address |-> Str(address),
      phone |-> Str(phone), isSpecialShape |-> special, isValid |-> TRUE] :
        name \in SeqsUpTo(TextChars, MaxText) \ {<<>>}, flavor \in FlavorTexts,
        address \in SeqsUpTo(TextChars, 1), phone \in SeqsUpTo(TextChars, 1),
        special \in BOOLEAN}

NoPopup == [none |-> TRUE]

\* renderMarkers builds the popup of a store
CreateStorePopup ==
    /\ norm.popup = NoPopup
    /\ norm' = [norm EXCEPT !.popup = createStorePopupContent(norm.store)]
    /\ UNCHANGED <<sw, ingest, calls, app, loc, notif, now>>

-----------------------------------------------------------------------------
(* One ingestion run, and the legacy run over the same records as objects *)

NoMessage == [type |-> "NONE"]

\* the object that pairs each key with the row's value at the key's position,
\* the last position winning when a key occurs twice
ZipObject(keys, row) ==
    Obj([p \in PropNames |->
            IF \E i \in 1..Len(keys) : keys[i] = p
            THEN Index(row, CHOOSE i \in 1..Len(keys) :
                                /\ keys[i] = p
                                /\ \A j \in 1..Len(keys) : keys[j] = p => j <= i)
            ELSE Undef])

IsColumnar(rawData) ==
    /\ rawData.t = "object"
    /\ DOMAIN rawData.o = {"keys", "data", "last_updated"}
    /\ isArray(rawData.o.keys)
    /\ isArray(rawData.o.data)

\* the flat array of objects a columnar payload stands for
ZippedPayload(rawData) ==
    Arr([i \in 1..Len(rawData.o.data.a) |-> ZipObject(rawData.o.keys.a, rawData.o.data.a[i])])

Ingest ==
    /\ "response" \in DOMAIN ingest
    /\ ingest.message = NoMessage
    /\ ingest' = [ingest EXCEPT !.message = fetchAndProcessStores(workerConfig, ingest.response)]
    /\ UNCHANGED <<sw, norm, calls, app, loc, notif, now>>

IngestZipped ==
    /\ "response" \in DOMAIN ingest
    /\ ingest.zipped = NoMessage
    /\ ingest.response.status = "ok"
    /\ IsColumnar(ingest.response.rawData)
    /\ ingest' = [ingest EXCEPT !.zipped =
            fetchAndProcessStores(workerConfig,
                Response("ok", ZippedPayload(ingest.response.rawData)))]
    /\ UNCHANGED <<sw, norm, calls, app, loc, notif, now>>

-----------------------------------------------------------------------------
(* Notifications: NotificationService (src/unnamed/part_001) *)

\* CONFIG.UI.TOAST_TIMEOUT, the duplicate window and the fade-out, in ms
TOAST_TIMEOUT == 3000
DUPLICATE_WINDOW == 2000
FADE_OUT == 300

NoToast == 0

\* new NotificationService(): no toast in the container, no timer set; `log`
\* lists the show calls made on the service itself
NotifInit ==
    [container |-> TRUE, lastMessageTime |-> 0, lastMessageText |-> "",
     currentToast |-> NoToast, toasts |-> {}, timers |-> {}, created |-> 0,
     log |-> <<>>]

\* whether show(message) would pass the duplicate check at time t
Displays(n, message, t) ==
    n.container /\ ~(message = n.lastMessageText /\ t - n.lastMessageTime < DUPLICATE_WINDOW)

showExtendsWindow(n, message, type, t) ==
    IF ~Displays(n, message, t) THEN [n EXCEPT !.lastMessageTime = t]
    ELSE
        LET toast == n.created + 1
        IN  [n EXCEPT
                !.lastMessageText = message,
                !.lastMessageTime = t,
                !.currentToast = toast,
                !.toasts = {x \in @ : x.id # n.currentToast}
                              \cup {[id |-> toast, text |-> message, type |-> type, show |-> TRUE]},
                !.timers = @ \cup {[toast |-> toast, kind |-> "hide", due |-> t + TOAST_TIMEOUT]},
                !.created = toast]

\* show(message, type) at time t: the toast element is numbered created + 1
show(n, message, type, t) ==
    IF ~Displays(n, message, t) THEN n
    ELSE
        LET toast == n.created + 1
        IN  [n EXCEPT
                !.lastMessageText = message,
                !.lastMessageTime = t,
                !.currentToast = toast,
                !.toasts = {x \in @ : x.id # n.currentToast}
                              \cup {[id |-> toast, text |-> message, type |-> type, show |-> TRUE]},
                !.timers = @ \cup {[toast |-> toast, kind |-> "hide", due |-> t + TOAST_TIMEOUT]},
                !.created = toast]

-----------------------------------------------------------------------------
(* Location: LocationService and MapController.locateUser *)

\* the 5 s window of _handleLocationError, in ms
ERROR_WINDOW == 5000

\* coordinates the geolocation API reports
Positions == {"here", "there"}
NoPosition == "nowhere"
NoWatch == 0

\* GeolocationPositionError: code 1 PERMISSION_DENIED, 2 POSITION_UNAVAILABLE,
\* 3 TIMEOUT, with the three constants on the object
PositionError(code) ==
    [message |-> "GeolocationPositionError", code |-> code,
     PERMISSION_DENIED |-> 1, POSITION_UNAVAILABLE |-> 2, TIMEOUT |-> 3]
\* new Error(message): code and the three constants are undefined, written 0
PlainError(message) ==
    [message |-> message, code |-> 0,
     PERMISSION_DENIED |-> 0, POSITION_UNAVAILABLE |-> 0, TIMEOUT |-> 0]

ErrorCodes == {1, 2, 3}

\* an error with a code that is no GeolocationPositionError, such as a
\* DOMException: its code is 18 and it has none of the three constants
OtherError(message) ==
    [message |-> message, code |-> 18,
     PERMISSION_DENIED |-> 0, POSITION_UNAVAILABLE |-> 0, TIMEOUT |-> 0]

\* what else the catch block of locateUser can be handed
OtherErrors == {PlainError("TypeError"), OtherError("SecurityError")}

\* LocationService.getErrorMessage: switch (error.code) with strict equality
getErrorMessage(error) ==
    IF error.code = error.PERMISSION_DENIED THEN "LOCATION_DENIED"
    ELSE IF error.code = error.POSITION_UNAVAILABLE THEN "LOCATION_UNAVAILABLE"
    ELSE IF error.code = error.TIMEOUT THEN "LOCATION_TIMEOUT"
    ELSE "LOCATION_UNKNOWN_ERROR"

\* new MapController() and new LocationService(), before init(); `asked`
\* counts the locateUser calls, `failedFor` holds the isManualRequest flags of
\* the failed ones and `toastedFor` the show calls _handleLocationError made;
\* `watches` are the watches registered with the geolocation API and not
\* cancelled, `arrived` is the position the API reported last, `direct` counts
\* the watchPosition calls made on the service itself and `caught` holds the
\* errors the catch block was handed with the message it showed for each;
\* `succeeded` counts the one-shot requests answered with a position,
\* `cancelled` the clearWatch calls made on the geolocation API and `clears`
\* the clearWatch calls made on the service itself
LocInit(supported) ==
    [supported |-> supported, button |-> FALSE, buttonLoading |-> FALSE,
     pending |-> <<>>, watchId |-> NoWatch, watches |-> {}, registered |-> 0,
     userMarkers |-> 0, userPosition |-> NoPosition, view |-> NoPosition,
     lastErrorTime |-> 0, asked |-> 0, failedFor |-> {}, toastedFor |-> {},
     arrived |-> NoPosition, direct |-> 0, caught |-> {},
     succeeded |-> 0, cancelled |-> 0, clears |-> 0]

\* the same after MapController.init(): the map has its default view and the
\* locate control is on it
LocReady(supported) ==
    [LocInit(supported) EXCEPT !.button = TRUE, !.view = "default"]

updateUserMarkerAddsMarker(l, position) ==
    [l EXCEPT !.userMarkers = @ + 1, !.userPosition = position]

\* MapController._updateUserMarker
updateUserMarker(l, position) ==
    IF l.userMarkers > 0 THEN [l EXCEPT !.userPosition = position]
    ELSE [l EXCEPT !.userMarkers = 1, !.userPosition = position]

\* MapController._handleLocationSuccess
handleLocationSuccess(l, position) ==
    [updateUserMarker([l EXCEPT !.buttonLoading = FALSE], position) EXCEPT !.view = position]

clearWatchKeepsId(l) ==
    IF l.watchId # NoWatch
    THEN [l EXCEPT !.watches = @ \ {l.watchId}, !.cancelled = @ + 1]
    ELSE l

watchPositionNever(l) == l

\* LocationService.clearWatch
clearWatch(l) ==
    IF l.watchId # NoWatch
    THEN [l EXCEPT !.watches = @ \ {l.watchId}, !.watchId = NoWatch,
                   !.cancelled = @ + 1]
    ELSE l

watchPositionNoClear(l) ==
    IF ~l.supported THEN l
    ELSE [l EXCEPT
            !.watchId = l.registered + 1,
            !.watches = @ \cup {l.registered + 1},
            !.registered = l.registered + 1]

\* LocationService.watchPosition: the API hands out the next watch id
watchPosition(l) ==
    IF ~l.supported THEN l
    ELSE [clearWatch(l) EXCEPT
            !.watchId = l.registered + 1,
            !.watches = @ \cup {l.registered + 1},
            !.registered = l.registered + 1]

handleLocationErrorSliding(l, n, error, isManualRequest, t) ==
    LET cleared == [l EXCEPT !.buttonLoading = FALSE,
                             !.failedFor = @ \cup {isManualRequest}]
        toasted(message) ==
            [cleared EXCEPT
                !.toastedFor =
                    @ \cup {[isManualRequest |-> isManualRequest, message |-> message]},
                !.caught = @ \cup {[error |-> error, message |-> message]}]
    IN  IF error.message = "GEOLOCATION_NOT_SUPPORTED"
        THEN [loc |-> toasted("LOCATION_NOT_SUPPORTED"),
              notif |-> show(n, "LOCATION_NOT_SUPPORTED", "error", t)]
        ELSE IF t - l.lastErrorTime < ERROR_WINDOW
        THEN [loc |-> [cleared EXCEPT !.lastErrorTime = t], notif |-> n]
        ELSE [loc |-> [toasted(getErrorMessage(error)) EXCEPT !.lastErrorTime = t],
              notif |-> show(n, getErrorMessage(error), "error", t)]

\* MapController._handleLocationError at time t; the result is the pair of
\* the location state and the notification state
handleLocationError(l, n, error, isManualRequest, t) ==
    LET cleared == [l EXCEPT !.buttonLoading = FALSE,
                             !.failedFor = @ \cup {isManualRequest}]
        toasted(message) ==
            [cleared EXCEPT
                !.toastedFor =
                    @ \cup {[isManualRequest |-> isManualRequest, message |-> message]},
                !.caught = @ \cup {[error |-> error, message |-> message]}]
    IN  IF error.message = "GEOLOCATION_NOT_SUPPORTED"
        THEN [loc |-> toasted("LOCATION_NOT_SUPPORTED"),
              notif |-> show(n, "LOCATION_NOT_SUPPORTED", "error", t)]
        ELSE IF t - l.lastErrorTime < ERROR_WINDOW
        THEN [loc |-> cleared, notif |-> n]
        ELSE [loc |-> [toasted(getErrorMessage(error)) EXCEPT !.lastErrorTime = t],
              notif |-> show(n, getErrorMessage(error), "error", t)]

\* MapController.locateUser up to the answer of the geolocation API: an
\* unsupported API rejects at once and the catch block runs
locateUser(l, n, isManualRequest, t) ==
    LET loading == [l EXCEPT !.buttonLoading = IF l.button THEN TRUE ELSE @,
                             !.asked = @ + 1]
    IN  IF ~l.supported
        THEN handleLocationError(loading, n, PlainError("GEOLOCATION_NOT_SUPPORTED"),
                                 isManualRequest, t)
        ELSE [loc |-> [loading EXCEPT !.pending = Append(@, isManualRequest)],
              notif |-> n]

\* pending with its k-th request removed
RemoveAt(q, k) == SubSeq(q, 1, k - 1) \o SubSeq(q, k + 1, Len(q))

-----------------------------------------------------------------------------
(* StoreService.fetchStores and the worker's message handler *)

\* the most fetchStores calls in one run
MaxFetch == 2
CallIds == 1..MaxFetch

NoResponse == Response("none", Undef)
NoValue == [none |-> TRUE]

\* a fetchStores call not made yet; `posts` records every message the worker
\* posted, `settled` counts the calls of resolve and reject
NoCall ==
    [worker |-> "none", config |-> FALSE, response |-> NoResponse, outbox |-> NoMessage,
     errorEvent |-> FALSE, posts |-> <<>>, promise |-> "none", settled |-> 0,
     value |-> NoValue]

\* fetchStores(): a new worker with both handlers set and the FETCH_STORES
\* request posted to it; the promise is pending
fetchStores(config) ==
    [NoCall EXCEPT !.worker = "starting", !.config = config, !.promise = "pending"]

\* resolve / reject: only the first call settles the promise
settle(c, state, value) ==
    [c EXCEPT !.promise = IF c.promise = "pending" THEN state ELSE @,
              !.value = IF c.promise = "pending" THEN value ELSE @,
              !.settled = @ + 1]

noTerminate(c) == [c EXCEPT !.outbox = NoMessage, !.errorEvent = FALSE]

\* worker.terminate(): the worker stops and what it posted is dropped
terminate(c) == [c EXCEPT !.worker = "terminated", !.outbox = NoMessage, !.errorEvent = FALSE]

onmessageAlwaysResolve(c) ==
    IF c.outbox.type = "SUCCESS"
    THEN terminate(settle(c, "resolved", [payload |-> c.outbox.payload]))
    ELSE IF c.outbox.type = "ERROR"
    THEN terminate(settle(c, "resolved", [payload |-> [stores |-> <<>>, lastUpdated |-> Str(<<>>)]]))
    ELSE [c EXCEPT !.outbox = NoMessage]

\* worker.onmessage of fetchStores
onmessage(c) ==
    IF c.outbox.type = "SUCCESS"
    THEN terminate(settle(c, "resolved", [payload |-> c.outbox.payload]))
    ELSE IF c.outbox.type = "ERROR"
    THEN terminate(settle(c, "rejected", [error |-> c.outbox.error]))
    ELSE [c EXCEPT !.outbox = NoMessage]

\* worker.onerror of fetchStores
onerror(c) == terminate(settle(c, "rejected", [error |-> "ErrorEvent"]))

\* self.onmessage of the worker for the FETCH_STORES request
workerOnMessage(c) ==
    IF ~c.config
    THEN [c EXCEPT !.worker = "idle",
                   !.posts = Append(@, Error("Configuration missing in worker")),
                   !.outbox = Error("Configuration missing in worker")]
    ELSE [c EXCEPT !.worker = "fetching"]

\* the rest of fetchAndProcessStores once fetch has answered
workerFetched(c, response) ==
    [c EXCEPT !.worker = "idle", !.response = response,
              !.posts = Append(@, fetchAndProcessStores(workerConfig, response)),
              !.outbox = fetchAndProcessStores(workerConfig, response)]

Live(c) == c.worker \notin {"none", "terminated"}

\* the responses a worker's fetch is answered with
ServiceResponses ==
    {Response("failed", Undef), Response("notok", Undef), Response("badjson", Undef),
     Response("ok", Columnar(Arr(<<"NAME", "py", "px", "flavorType", "markerColor">>),
        Arr(<<Arr(<<Str(TextA), Str(Text2503), Str(Text1215), Str(TextSingleFlavor),
                    Str(MARKERS_BLUE)>>),
              Arr(<<Str(TextA), Str(TextBad), Str(Text1215), Str(TextDualSpecial),
                    Str(MARKERS_RED)>>)>>),
        Str(Text2024))),
     Response("ok", Columnar(Arr(<<"NAME", "py", "px">>),
        Arr(<<Arr(<<Str(TextA), Str(InfinityText), Str(Text1215)>>)>>), Undef)),
     Response("ok", Columnar(Str(<<"N", "A", "M", "E">>), Arr(<<>>), Undef)),
     Response("ok", Columnar(Undef, Arr(<<>>), Undef)),
     Response("ok", Arr(<<WithLastUpdated(RawStore(Str(TextA), Str(Text2503), Str(Text1215),
                              Str(TextDualSpecial), Str(MARKERS_RED)), Str(Text2024))>>)),
     Response("ok", Arr(<<>>)),
     Response("ok", Arr(<<Null>>)),
     Response("ok", Null),
     Response("ok", Str(TextBad))}

\* the responses the page's one fetch is answered with
PageResponses ==
    {r \in ServiceResponses :
        \/ r.status = "failed"
        \/ /\ r.status = "ok"
           /\ r.rawData \notin {Null, Arr(<<>>), Arr(<<Null>>),
                                Columnar(Undef, Arr(<<>>), Undef)}}

-----------------------------------------------------------------------------
(* App and the marker layer: src/src/js/main.js, MapController.renderMarkers *)

\* no cluster icon was asked for since the last render
NoCluster == [none |-> TRUE]

\* new App(); the overlay is visible until hide() adds the hidden class;
\* `lastStores` is the argument of the last renderMarkers call on the
\* initialized map and `cluster` the last cluster icon the layer asked for;
\* `notified` lists the show calls of the catch block of init, each with
\* navigator.onLine at that moment and whether a toast was created
AppNew(online) ==
    [pc |-> "new", online |-> online, listening |-> FALSE, networkEvents |-> 0,
     overlayHidden |-> FALSE, markersLayer |-> FALSE, markers |-> <<>>, renders |-> 0,
     lastUpdatedText |-> Str(<<>>), call |-> 0, lastStores |-> <<>>,
     cluster |-> NoCluster, notified |-> <<>>]

\* the marker renderMarkers builds for a store
markerOf(store) ==
    [icon |-> iconKeyOf(store), markerColor |-> store.markerColor,
     latitude |-> store.latitude, longitude |-> store.longitude, store |-> store]

renderMarkersNoClear(a, stores) ==
    IF ~a.markersLayer THEN a
    ELSE [a EXCEPT !.markers = @ \o [i \in 1..Len(stores) |-> markerOf(stores[i])],
                   !.renders = @ + 1]

\* MapController.renderMarkers: clearLayers, then addLayers(markers)
renderMarkers(a, stores) ==
    IF ~a.markersLayer THEN a
    ELSE [a EXCEPT !.markers = [i \in 1..Len(stores) |-> markerOf(stores[i])],
                   !.renders = @ + 1]

\* marker.options.markerColor && marker.options.markerColor.includes('red')
isRedMarker(marker) ==
    /\ ToBoolean(marker.markerColor)
    /\ Includes(marker.markerColor.s, RedText)

iconCreateFunctionTieIsRed(markers) ==
    LET redCount == Cardinality({i \in 1..Len(markers) : isRedMarker(markers[i])})
    IN  IF 2 * redCount >= Len(markers) THEN "marker-cluster-red"
        ELSE "marker-cluster-blue"

\* iconCreateFunction of the cluster layer, on cluster.getAllChildMarkers();
\* redCount is compared with the quotient markers.length / 2, which is no
\* integer for an odd length: the comparisons are made on the doubles
iconCreateFunction(markers) ==
    LET redCount == Cardinality({i \in 1..Len(markers) : isRedMarker(markers[i])})
    IN  IF 2 * redCount = Len(markers) THEN "marker-cluster-split"
        ELSE IF 2 * redCount > Len(markers) THEN "marker-cluster-red"
        ELSE "marker-cluster-blue"

\* cluster.getAllChildMarkers(): the markers of the layer at the member
\* positions from i on
RECURSIVE getAllChildMarkers(_, _, _)
getAllChildMarkers(markers, members, i) ==
    IF i > Len(markers) THEN <<>>
    ELSE (IF i \in members THEN <<markers[i]>> ELSE <<>>)
            \o getAllChildMarkers(markers, members, i + 1)

\* MapController.updateLastUpdatedTime: the legend element exists once the
\* map is initialized
updateLastUpdatedTime(a, date) ==
    IF a.markersLayer /\ ToBoolean(date) THEN [a EXCEPT !.lastUpdatedText = date] ELSE a

catchShowKeepsOverlay(a, n, message, t) ==
    LET shown == show(n, message, "error", t)
    IN  [app |-> [a EXCEPT !.pc = "done",
                           !.notified = Append(@, [message |-> message, online |-> a.online,
                                                   displayed |-> shown.created # n.created])],
         notif |-> shown]

\* the catch block of App.init showing `message`
catchShow(a, n, message, t) ==
    LET shown == show(n, message, "error", t)
    IN  [app |-> [a EXCEPT !.pc = "done", !.overlayHidden = TRUE,
                           !.notified = Append(@, [message |-> message, online |-> a.online,
                                                   displayed |-> shown.created # n.created])],
         notif |-> shown]

afterFetchAlwaysGeneric(a, n, c, t) ==
    IF c.promise = "resolved"
    THEN [app |-> [updateLastUpdatedTime(renderMarkers(a, c.value.payload.stores),
                                         c.value.payload.lastUpdated)
                      EXCEPT !.pc = "done", !.overlayHidden = TRUE],
          notif |-> n]
    ELSE catchShow(a, n, "FETCH_ERROR", t)

\* App.init after `await StoreService.fetchStores()`: try, catch and finally
afterFetch(a, n, c, t) ==
    IF c.promise = "resolved"
    THEN [app |-> [updateLastUpdatedTime(renderMarkers(a, c.value.payload.stores),
                                         c.value.payload.lastUpdated)
                      EXCEPT !.pc = "done", !.overlayHidden = TRUE],
          notif |-> n]
    ELSE catchShow(a, n, IF ~a.online THEN "OFFLINE_MODE" ELSE "FETCH_ERROR", t)

AwaitsLocationToo(i) ==
    "pc" \in DOMAIN app /\ app.pc = "awaiting" /\ app.call = i /\ loc.pending = <<>>

\* whether App.init is waiting for call i
Awaits(i) == "pc" \in DOMAIN app /\ app.pc = "awaiting" /\ app.call = i

-----------------------------------------------------------------------------
(* Actions of the running page *)

\* Date.now() when the page loads, the step of the clock and how far it runs
StartTime == 10000
TickMs == 3000
\* the most clicks on the locate control, online / offline events and clock
\* ticks in one run, taken together
MaxEvents == 3

\* the clicks that called locateUser, the network events and the ticks so far
Events ==
    (loc.asked - (IF app.pc = "new" THEN 0 ELSE 1))
        + app.networkEvents + ((now - StartTime) \div TickMs)

\* the rest of App.init runs as soon as the promise of call i is settled
Continue(i) ==
    IF Awaits(i) /\ calls'[i].promise # "pending"
    THEN LET r == afterFetch(app, notif, calls'[i], now)
         IN  app' = r.app /\ notif' = r.notif
    ELSE UNCHANGED <<app, notif>>

\* App.init up to `await StoreService.fetchStores()`: the offline listeners,
\* mapController.init(), the passive locateUser(), loadingController.show()
\* and the fetchStores call
AppInit ==
    /\ app.pc = "new"
    /\ LET r == locateUser([loc EXCEPT !.button = TRUE, !.view = "default"],
                           notif, FALSE, now)
       IN  loc' = r.loc /\ notif' = r.notif
    /\ app' = [app EXCEPT !.pc = "awaiting", !.listening = TRUE, !.markersLayer = TRUE,
                          !.overlayHidden = FALSE, !.call = 1]
    /\ calls' = [calls EXCEPT ![1] = fetchStores(TRUE)]
    /\ UNCHANGED <<sw, norm, ingest, now>>

\* StoreService.fetchStores called on its own; calls are numbered as made
FetchStores(i) ==
    /\ calls[i].worker = "none"
    /\ \A j \in 1..(i - 1) : calls[j].worker # "none"
    /\ calls' = [calls EXCEPT ![i] = fetchStores(TRUE)]
    /\ UNCHANGED <<sw, norm, ingest, app, loc, notif, now>>

\* the same call from a caller that passes no config to the worker
FetchStoresNoConfig(i) ==
    /\ calls[i].worker = "none"
    /\ \A j \in 1..(i - 1) : calls[j].worker # "none"
    /\ calls' = [calls EXCEPT ![i] = fetchStores(FALSE)]
    /\ UNCHANGED <<sw, norm, ingest, app, loc, notif, now>>

\* the worker script cannot be loaded: an error event goes to worker.onerror
WorkerLoadError(i) ==
    /\ calls[i].worker = "starting"
    /\ calls' = [calls EXCEPT ![i] = [@ EXCEPT !.worker = "failed", !.errorEvent = TRUE]]
    /\ UNCHANGED <<sw, norm, ingest, app, loc, notif, now>>

\* the worker receives the request
WorkerOnMessage(i) ==
    /\ calls[i].worker = "starting"
    /\ calls' = [calls EXCEPT ![i] = workerOnMessage(@)]
    /\ UNCHANGED <<sw, norm, ingest, app, loc, notif, now>>

\* the worker's fetch is answered and fetchAndProcessStores runs to its post
WorkerFetched(i, response) ==
    /\ calls[i].worker = "fetching"
    /\ calls' = [calls EXCEPT ![i] = workerFetched(@, response)]
    /\ UNCHANGED <<sw, norm, ingest, app, loc, notif, now>>

\* the page receives the worker's message
MainOnMessage(i) ==
    /\ Live(calls[i])
    /\ calls[i].outbox # NoMessage
    /\ calls' = [calls EXCEPT ![i] = onmessage(@)]
    /\ Continue(i)
    /\ UNCHANGED <<sw, norm, ingest, loc, now>>

\* the page receives the worker's error event
MainOnError(i) ==
    /\ Live(calls[i])
    /\ calls[i].errorEvent
    /\ calls' = [calls EXCEPT ![i] = onerror(@)]
    /\ Continue(i)
    /\ UNCHANGED <<sw, norm, ingest, loc, now>>

ClickLocateAlways ==
    /\ loc.button
    /\ Events < MaxEvents
    /\ LET r == locateUser(loc, notif, TRUE, now)
       IN  loc' = r.loc /\ notif' = r.notif
    /\ UNCHANGED <<sw, norm, ingest, calls, app, now>>

\* a click on the locate control: ignored while the control is loading
ClickLocate ==
    /\ loc.button
    /\ Events < MaxEvents
    /\ LET r == IF loc.buttonLoading THEN [loc |-> loc, notif |-> notif]
                ELSE locateUser(loc, notif, TRUE, now)
       IN  loc' = r.loc /\ notif' = r.notif
    /\ UNCHANGED <<sw, norm, ingest, calls, app, now>>

\* getCurrentPosition answers the k-th pending request with a position:
\* _handleLocationSuccess, then watchPosition
GeoSuccess(k, position) ==
    /\ k \in 1..Len(loc.pending)
    /\ loc' = watchPosition(handleLocationSuccess(
                  [loc EXCEPT !.pending = RemoveAt(@, k), !.arrived = position,
                              !.succeeded = @ + 1],
                  position))
    /\ UNCHANGED <<sw, norm, ingest, calls, app, notif, now>>

\* getCurrentPosition answers the k-th pending request with an error
GeoError(k, code) ==
    /\ k \in 1..Len(loc.pending)
    /\ LET r == handleLocationError([loc EXCEPT !.pending = RemoveAt(@, k)], notif,
                                    PositionError(code), loc.pending[k], now)
       IN  loc' = r.loc /\ notif' = r.notif
    /\ UNCHANGED <<sw, norm, ingest, calls, app, now>>

\* a registered watch reports a position
WatchUpdate(id, position) ==
    /\ id \in loc.watches
    /\ loc' = updateUserMarker([loc EXCEPT !.arrived = position], position)
    /\ UNCHANGED <<sw, norm, ingest, calls, app, notif, now>>

\* a registered watch reports an error: console.warn only
WatchError(id) ==
    /\ id \in loc.watches
    /\ UNCHANGED vars

TimerHideNoRemove(timer) ==
    /\ timer.kind = "hide"
    /\ timer.due <= now
    /\ notif' =
        IF notif.currentToast = timer.toast
        THEN [notif EXCEPT
                !.toasts = {IF x.id = timer.toast THEN [x EXCEPT !.show = FALSE] ELSE x : x \in @},
                !.timers = @ \ {timer}]
        ELSE [notif EXCEPT !.timers = @ \ {timer}]
    /\ UNCHANGED <<sw, norm, ingest, calls, app, loc, now>>

\* the TOAST_TIMEOUT timer of a toast
TimerHide(timer) ==
    /\ timer.kind = "hide"
    /\ timer.due <= now
    /\ notif' =
        IF notif.currentToast = timer.toast
        THEN [notif EXCEPT
                !.toasts = {IF x.id = timer.toast THEN [x EXCEPT !.show = FALSE] ELSE x : x \in @},
                !.timers = (@ \ {timer})
                    \cup {[toast |-> timer.toast, kind |-> "remove", due |-> now + FADE_OUT]}]
        ELSE [notif EXCEPT !.timers = @ \ {timer}]
    /\ UNCHANGED <<sw, norm, ingest, calls, app, loc, now>>

TimerRemoveClearsAlways(timer) ==
    /\ timer.kind = "remove"
    /\ timer.due <= now
    /\ notif' = [notif EXCEPT
            !.toasts = {x \in @ : x.id # timer.toast},
            !.currentToast = NoToast,
            !.timers = @ \ {timer}]
    /\ UNCHANGED <<sw, norm, ingest, calls, app, loc, now>>

\* the fade-out timer of a toast
TimerRemove(timer) ==
    /\ timer.kind = "remove"
    /\ timer.due <= now
    /\ notif' = [notif EXCEPT
            !.toasts = {x \in @ : x.id # timer.toast},
            !.currentToast = IF @ = timer.toast THEN NoToast ELSE @,
            !.timers = @ \ {timer}]
    /\ UNCHANGED <<sw, norm, ingest, calls, app, loc, now>>

\* the window's offline event
WindowOffline ==
    /\ app.online
    /\ Events < MaxEvents
    /\ app' = [app EXCEPT !.online = FALSE, !.networkEvents = @ + 1]
    /\ notif' = IF app.listening THEN show(notif, "OFFLINE", "error", now) ELSE notif
    /\ UNCHANGED <<sw, norm, ingest, calls, loc, now>>

\* the window's online event
WindowOnline ==
    /\ ~app.online
    /\ Events < MaxEvents
    /\ app' = [app EXCEPT !.online = TRUE, !.networkEvents = @ + 1]
    /\ notif' = IF app.listening THEN show(notif, "ONLINE", "info", now) ELSE notif
    /\ UNCHANGED <<sw, norm, ingest, calls, loc, now>>

Tick ==
    /\ Events < MaxEvents
    /\ now' = now + TickMs
    /\ UNCHANGED <<sw, norm, ingest, calls, app, loc, notif>>

\* the clock step and the most show calls and clock ticks, taken together, in
\* one run of the NotificationService
NotifyTickMs == 1000
MaxNotifyEvents == 6

NotifyEvents == Len(notif.log) + ((now - StartTime) \div NotifyTickMs)

\* the messages and types show is called with
ShownMessages == {"OFFLINE", "ONLINE"}
ToastTypes == {"info", "error"}

\* NotificationService.show(message, type) called at time now; the log entry
\* tells whether a toast element was created
Show(message, type) ==
    /\ NotifyEvents < MaxNotifyEvents
    /\ LET n == show(notif, message, type, now)
       IN  notif' = [n EXCEPT !.log =
                        Append(@, [message |-> message, t |-> now,
                                   displayed |-> n.created # notif.created])]
    /\ UNCHANGED <<sw, norm, ingest, calls, app, loc, now>>

NotifyTick ==
    /\ NotifyEvents < MaxNotifyEvents
    /\ now' = now + NotifyTickMs
    /\ UNCHANGED <<sw, norm, ingest, calls, app, loc, notif>>

\* the most show calls in a run whose clock is not bounded
MaxLiveShows == 2

\* NotificationService.show(message, type) called at time now
LiveShow(message, type) ==
    /\ Len(notif.log) < MaxLiveShows
    /\ LET n == show(notif, message, type, now)
       IN  notif' = [n EXCEPT !.log =
                        Append(@, [message |-> message, t |-> now,
                                   displayed |-> n.created # notif.created])]
    /\ UNCHANGED <<sw, norm, ingest, calls, app, loc, now>>

\* the clock advances as long as a timer is not due yet
LiveTick ==
    /\ \E timer \in notif.timers : timer.due > now
    /\ now' = now + NotifyTickMs
    /\ UNCHANGED <<sw, norm, ingest, calls, app, loc, notif>>

\* the longest list handed to renderMarkers and the most renderMarkers calls
\* in one run of the marker layer
MaxStores == 3
MaxRenders == 2

\* the records the marker layer is drawn from: one blue, one red-striped and
\* one whose markerColor is 'RED'
RenderStores ==
    {normalizeStoreData(RawStore(Str(TextA), Str(Text2503), Str(Text1215),
                                 Str(TextSingleFlavor), markerColor), workerConfig) :
        markerColor \in {Str(MARKERS_BLUE), Str(MARKERS_RED_STRIPED), Str(TextUpperRed)}}

StoreLists == SeqsUpTo(RenderStores, MaxStores)

\* MapController.init() on a fresh controller
MapControllerInit ==
    /\ ~app.markersLayer
    /\ app' = [app EXCEPT !.markersLayer = TRUE]
    /\ UNCHANGED <<sw, norm, ingest, calls, loc, notif, now>>

\* MapController.renderMarkers(stores); the layer drops its cluster icons
RenderMarkers(stores) ==
    /\ app.renders < MaxRenders
    /\ app' = [renderMarkers(app, stores) EXCEPT
                  !.lastStores = IF app.markersLayer THEN stores ELSE @,
                  !.cluster = NoCluster]
    /\ UNCHANGED <<sw, norm, ingest, calls, loc, notif, now>>

\* the layer groups the markers at the positions `members` into a cluster and
\* asks iconCreateFunction for its icon
CreateClusterIcon(members) ==
    /\ members \subseteq 1..Len(app.markers)
    /\ Cardinality(members) >= 2
    /\ app' = [app EXCEPT !.cluster =
                  [members |-> members,
                   className |-> iconCreateFunction(
                                    getAllChildMarkers(app.markers, members, 1))]]
    /\ UNCHANGED <<sw, norm, ingest, calls, loc, notif, now>>

\* the most locateUser calls, watchPosition calls on the service and clock
\* ticks in one run of the location code, taken together
MaxLocEvents == 4

LocEvents == loc.asked + loc.direct + loc.clears + ((now - StartTime) \div TickMs)

\* MapController.locateUser called by the click handler (true) or by App.init
\* (no argument, false)
LocateUser(isManualRequest) ==
    /\ LocEvents < MaxLocEvents
    /\ LET r == locateUser(loc, notif, isManualRequest, now)
       IN  loc' = r.loc /\ notif' = r.notif
    /\ UNCHANGED <<sw, norm, ingest, calls, app, now>>

\* the try block of locateUser throws something that is no
\* GeolocationPositionError while the k-th request is awaited
GeoThrow(k, error) ==
    /\ k \in 1..Len(loc.pending)
    /\ LET r == handleLocationError([loc EXCEPT !.pending = RemoveAt(@, k)], notif,
                                    error, loc.pending[k], now)
       IN  loc' = r.loc /\ notif' = r.notif
    /\ UNCHANGED <<sw, norm, ingest, calls, app, now>>

\* LocationService.watchPosition called on the service itself
ServiceWatchPosition ==
    /\ LocEvents < MaxLocEvents
    /\ loc' = [watchPosition(loc) EXCEPT !.direct = @ + 1]
    /\ UNCHANGED <<sw, norm, ingest, calls, app, notif, now>>

\* LocationService.clearWatch called on the service itself
ServiceClearWatch ==
    /\ LocEvents < MaxLocEvents
    /\ loc' = [clearWatch(loc) EXCEPT !.clears = @ + 1]
    /\ UNCHANGED <<sw, norm, ingest, calls, app, notif, now>>

LocTick ==
    /\ LocEvents < MaxLocEvents
    /\ now' = now + TickMs
    /\ UNCHANGED <<sw, norm, ingest, calls, app, loc, notif>>

-----------------------------------------------------------------------------
(* The service worker: src/unnamed/part_002, from CACHE_NAME on *)

\* url.pathname as a sequence of pieces; 'stores.json' is one piece
StoresJson == <<"stores.json">>
DataPath == <<"/", "stores.json">>
IndexPath == <<"/", "index.html">>
BundlePath == <<"/", "assets", "/", "app.js">>
Paths == {DataPath, IndexPath, BundlePath}

\* the entries of ASSETS_TO_CACHE among the paths
ASSETS_TO_CACHE == {DataPath, IndexPath}

\* String.prototype.endsWith
endsWith(s, p) == Len(s) >= Len(p) /\ SubSeq(s, Len(s) - Len(p) + 1, Len(s)) = p

\* the bodies the network serves, one per version of a file
Bodies == {1, 2}
NoEntry == [none |-> TRUE]
CachedResponse(body) == [ok |-> TRUE, body |-> body]
NetworkResponse(ok, body) == [ok |-> ok, body |-> body]
NoResponseYet == [pending |-> TRUE]

\* the worker script evaluated, before its install event: `others` says
\* whether caches of an earlier CACHE_NAME exist, `cache` is the cache named
\* CACHE_NAME, `requests` are the fetch events not answered yet, `puts` the
\* cache.put calls not performed yet and `answered` what respondWith was
\* settled with, in order
SwInit(others) ==
    [phase |-> "installing", others |-> others,
     cache |-> [path \in Paths |-> NoEntry],
     requests |-> <<>>, puts |-> {}, answered |-> <<>>]

onFetchCacheFirst(path) == "matching"

\* the fetch listener up to its first asynchronous call: fetch(event.request)
\* for the data file, caches.match(event.request) for the rest
onFetch(path) == IF endsWith(path, StoresJson) THEN "fetching" ELSE "matching"

\* respondWith settled for request r
answer(s, k, source, response) ==
    [s EXCEPT
        !.requests = RemoveAt(@, k),
        !.answered = Append(@, [path |-> s.requests[k].path, source |-> source,
                                response |-> response, net |-> s.requests[k].net,
                                found |-> s.requests[k].found])]

\* caches.match(event.request) over the caches that exist
match(s, path) == s.cache[path]

\* fetch(event.request) resolved with `response` for request k: the data
\* branch clones an ok response for a later cache.put and returns the response;
\* the other branch returns fetch's promise
fetchResolved(s, k, response) ==
    LET r == s.requests[k]
        noted == [s EXCEPT !.requests[k].net = "resolved"]
    IN  IF endsWith(r.path, StoresJson)
        THEN answer(IF response.ok
                    THEN [noted EXCEPT !.puts = @ \cup {[path |-> r.path, body |-> response.body]}]
                    ELSE noted,
                    k, "network", response)
        ELSE answer(noted, k, "network", response)

\* fetch(event.request) rejected for request k: the data branch's catch
\* calls caches.match; the other branch's promise rejects
fetchRejected(s, k) ==
    LET r == s.requests[k]
        noted == [s EXCEPT !.requests[k].net = "rejected"]
    IN  IF endsWith(r.path, StoresJson)
        THEN [noted EXCEPT !.requests[k].pc = "matching"]
        ELSE answer(noted, k, "error", NoEntry)

\* caches.match resolved for request k: in the catch of the data branch its
\* result is the answer, undefined included; in the other branch an entry is
\* the answer and undefined goes on to fetch(event.request)
matchResolved(s, k) ==
    LET r == s.requests[k]
        found == match(s, r.path)
        noted == [s EXCEPT !.requests[k].found = found]
    IN  IF r.net = "rejected"
        THEN answer(noted, k, IF found = NoEntry THEN "error" ELSE "cache", found)
        ELSE IF found # NoEntry
        THEN answer(noted, k, "cache", found)
        ELSE [noted EXCEPT !.requests[k].pc = "fetching"]

\* the fetch events, network outcomes and cache operations of one run
MaxSwEvents == 3
SwEvents == Len(sw.requests) + Len(sw.answered)

\* the install listener: cache.addAll(ASSETS_TO_CACHE) stores every asset or,
\* when one download fails, none, and the worker is discarded
Install(ok, body) ==
    /\ sw.phase = "installing"
    /\ sw' = IF ok
             THEN [sw EXCEPT !.phase = "installed",
                             !.cache = [path \in Paths |->
                                           IF path \in ASSETS_TO_CACHE
                                           THEN CachedResponse(body) ELSE @[path]]]
             ELSE [sw EXCEPT !.phase = "redundant"]
    /\ UNCHANGED <<norm, ingest, calls, app, loc, notif, now>>

\* the activate listener: every cache with another name is deleted
Activate ==
    /\ sw.phase = "installed"
    /\ sw' = [sw EXCEPT !.phase = "activated", !.others = FALSE]
    /\ UNCHANGED <<norm, ingest, calls, app, loc, notif, now>>

\* a page request reaches the fetch listener
FetchEvent(path) ==
    /\ sw.phase = "activated"
    /\ SwEvents < MaxSwEvents
    /\ sw' = [sw EXCEPT !.requests =
                 Append(@, [path |-> path, pc |-> onFetch(path), net |-> "none",
                            found |-> NoResponseYet])]
    /\ UNCHANGED <<norm, ingest, calls, app, loc, notif, now>>

NetworkResolves(k, ok, body) ==
    /\ k \in 1..Len(sw.requests)
    /\ sw.requests[k].pc = "fetching"
    /\ sw' = fetchResolved(sw, k, NetworkResponse(ok, body))
    /\ UNCHANGED <<norm, ingest, calls, app, loc, notif, now>>

NetworkRejects(k) ==
    /\ k \in 1..Len(sw.requests)
    /\ sw.requests[k].pc = "fetching"
    /\ sw' = fetchRejected(sw, k)
    /\ UNCHANGED <<norm, ingest, calls, app, loc, notif, now>>

CacheMatch(k) ==
    /\ k \in 1..Len(sw.requests)
    /\ sw.requests[k].pc = "matching"
    /\ sw' = matchResolved(sw, k)
    /\ UNCHANGED <<norm, ingest, calls, app, loc, notif, now>>

\* caches.open(CACHE_NAME).then(cache => cache.put(...)) of an earlier answer
CachePut(put) ==
    /\ put \in sw.puts
    /\ sw' = [sw EXCEPT !.cache[put.path] = CachedResponse(put.body),
                        !.puts = @ \ {put}]
    /\ UNCHANGED <<norm, ingest, calls, app, loc, notif, now>>

-----------------------------------------------------------------------------
(* Specifications *)

IngestIdle == [idle |-> TRUE]
CallsIdle == [idle |-> TRUE]
AppIdle == [idle |-> TRUE]
LocIdle == [idle |-> TRUE]
SwIdle == [idle |-> TRUE]
NotifIdle == [idle |-> TRUE]

\* normalizeStoreData and the icon selection over every raw record
InitNormalize ==
    /\ norm \in [raw : RawStores, out : {Pending}, icon : {NoIcon}]
    /\ ingest = IngestIdle
    /\ calls = CallsIdle
    /\ app = AppIdle
    /\ loc = LocIdle
    /\ notif = NotifIdle
    /\ sw = SwIdle
    /\ now = 0

NextNormalize == Normalize \/ SelectIcon

SpecNormalize == InitNormalize /\ [][NextNormalize]_vars

\* fetchAndProcessStores over every response
InitIngest ==
    /\ norm = NormIdle
    /\ ingest \in [response : Responses, message : {NoMessage}, zipped : {NoMessage}]
    /\ calls = CallsIdle
    /\ app = AppIdle
    /\ loc = LocIdle
    /\ notif = NotifIdle
    /\ sw = SwIdle
    /\ now = 0

NextIngest == Ingest \/ IngestZipped

SpecIngest == InitIngest /\ [][NextIngest]_vars

\* StoreService.fetchStores and its worker, called up to MaxFetch times
InitService ==
    /\ norm = NormIdle
    /\ ingest = IngestIdle
    /\ calls = [i \in CallIds |-> NoCall]
    /\ app = AppIdle
    /\ loc = LocIdle
    /\ notif = NotifIdle
    /\ sw = SwIdle
    /\ now = StartTime

NextService ==
    \E i \in CallIds :
        \/ FetchStores(i)
        \/ FetchStoresNoConfig(i)
        \/ WorkerLoadError(i)
        \/ WorkerOnMessage(i)
        \/ \E response \in ServiceResponses : WorkerFetched(i, response)
        \/ MainOnMessage(i)
        \/ MainOnError(i)

SpecService == InitService /\ [][NextService]_vars

\* a NotificationService under any caller, with its timers and the clock
InitNotify ==
    /\ norm = NormIdle
    /\ ingest = IngestIdle
    /\ calls = CallsIdle
    /\ app = AppIdle
    /\ loc = LocIdle
    /\ notif = NotifInit
    /\ sw = SwIdle
    /\ now = StartTime

NextNotify ==
    \/ \E message \in ShownMessages, type \in ToastTypes : Show(message, type)
    \/ \E timer \in notif.timers : TimerHide(timer)
    \/ \E timer \in notif.timers : TimerRemove(timer)
    \/ NotifyTick

SpecNotify == InitNotify /\ [][NextNotify]_vars

\* the NotificationService with a running clock: time passes and a timer that
\* is due runs its callback
NextNotifyLive ==
    \/ \E message \in ShownMessages, type \in ToastTypes : LiveShow(message, type)
    \/ \E timer \in notif.timers : TimerHide(timer)
    \/ \E timer \in notif.timers : TimerRemove(timer)
    \/ LiveTick

TimersRun ==
    /\ WF_vars(LiveTick)
    /\ WF_vars(\E timer \in notif.timers : TimerHide(timer))
    /\ WF_vars(\E timer \in notif.timers : TimerRemove(timer))

SpecNotifyLive == InitNotify /\ [][NextNotifyLive]_vars /\ TimersRun

\* createStorePopupContent over store records with markup in their texts
InitPopup ==
    /\ norm \in [store : PopupStores, popup : {NoPopup}]
    /\ ingest = IngestIdle
    /\ calls = CallsIdle
    /\ app = AppIdle
    /\ loc = LocIdle
    /\ notif = NotifIdle
    /\ sw = SwIdle
    /\ now = 0

NextPopup == CreateStorePopup

SpecPopup == InitPopup /\ [][NextPopup]_vars

\* the marker layer of a MapController: init, renderMarkers, cluster icons
InitRender ==
    /\ norm = NormIdle
    /\ ingest = IngestIdle
    /\ calls = CallsIdle
    /\ app = AppNew(TRUE)
    /\ loc = LocIdle
    /\ notif = NotifIdle
    /\ sw = SwIdle
    /\ now = 0

NextRender ==
    \/ MapControllerInit
    \/ \E stores \in StoreLists : RenderMarkers(stores)
    \/ \E members \in SUBSET (1..Len(app.markers)) : CreateClusterIcon(members)

SpecRender == InitRender /\ [][NextRender]_vars

\* MapController's location code and LocationService on an initialized map,
\* under any caller
InitLocation ==
    /\ norm = NormIdle
    /\ ingest = IngestIdle
    /\ calls = CallsIdle
    /\ app = AppIdle
    /\ loc \in {LocReady(supported) : supported \in BOOLEAN}
    /\ notif = NotifInit
    /\ sw = SwIdle
    /\ now = StartTime

NextLocation ==
    \/ \E isManualRequest \in BOOLEAN : LocateUser(isManualRequest)
    \/ \E k \in 1..Len(loc.pending), position \in Positions : GeoSuccess(k, position)
    \/ \E k \in 1..Len(loc.pending), code \in ErrorCodes : GeoError(k, code)
    \/ \E k \in 1..Len(loc.pending), error \in OtherErrors : GeoThrow(k, error)
    \/ \E id \in loc.watches, position \in Positions : WatchUpdate(id, position)
    \/ \E id \in loc.watches : WatchError(id)
    \/ ServiceWatchPosition
    \/ ServiceClearWatch
    \/ LocTick

SpecLocation == InitLocation /\ [][NextLocation]_vars

\* the page: App.init, its one fetchStores call, location, toasts, the clock
Init ==
    /\ norm = NormIdle
    /\ ingest = IngestIdle
    /\ calls = [i \in CallIds |-> NoCall]
    /\ app \in {AppNew(online) : online \in BOOLEAN}
    /\ loc \in {LocInit(supported) : supported \in BOOLEAN}
    /\ notif = NotifInit
    /\ sw = SwIdle
    /\ now = StartTime

Next ==
    \/ AppInit
    \/ \E i \in CallIds : WorkerLoadError(i)
    \/ \E i \in CallIds : WorkerOnMessage(i)
    \/ \E i \in CallIds, response \in PageResponses : WorkerFetched(i, response)
    \/ \E i \in CallIds : MainOnMessage(i)
    \/ \E i \in CallIds : MainOnError(i)
    \/ ClickLocate
    \/ \E k \in 1..Len(loc.pending), position \in Positions : GeoSuccess(k, position)
    \/ \E k \in 1..Len(loc.pending), code \in ErrorCodes : GeoError(k, code)
    \/ \E id \in loc.watches, position \in Positions : WatchUpdate(id, position)
    \/ \E id \in loc.watches : WatchError(id)
    \/ \E timer \in notif.timers : TimerHide(timer)
    \/ \E timer \in notif.timers : TimerRemove(timer)
    \/ WindowOffline
    \/ WindowOnline
    \/ Tick

Spec == Init /\ [][Next]_vars

\* the service worker from its install event on
InitWorker ==
    /\ norm = NormIdle
    /\ ingest = IngestIdle
    /\ calls = CallsIdle
    /\ app = AppIdle
    /\ loc = LocIdle
    /\ notif = NotifIdle
    /\ sw \in {SwInit(others) : others \in BOOLEAN}
    /\ now = 0

NextWorker ==
    \/ \E ok \in BOOLEAN, body \in Bodies : Install(ok, body)
    \/ Activate
    \/ \E path \in Paths : FetchEvent(path)
    \/ \E k \in 1..Len(sw.requests), ok \in BOOLEAN, body \in Bodies : NetworkResolves(k, ok, body)
    \/ \E k \in 1..Len(sw.requests) : NetworkRejects(k)
    \/ \E k \in 1..Len(sw.requests) : CacheMatch(k)
    \/ \E put \in sw.puts : CachePut(put)

SpecWorker == InitWorker /\ [][NextWorker]_vars

-----------------------------------------------------------------------------
(* Claims on normalization *)

NormRan == norm.raw # Undef /\ norm.out # Pending
RawPy == GetProp(norm.raw, "py")
RawPx == GetProp(norm.raw, "px")
RawFlavor == GetProp(norm.raw, "flavorType")
RawColor == GetProp(norm.raw, "markerColor")

\* a text that is a number as a whole: [+-] (Infinity | digits [. digits] | . digits)
\* after leading blanks, with nothing following
IsNumberText(s) ==
    LET t == TrimStart(s)
        u == IF t # <<>> /\ t[1] \in {"-", "+"} THEN Tail(t) ELSE t
        dots == {i \in 1..Len(u) : u[i] = "."}
    IN  \/ u = InfinityText
        \/ /\ \A i \in 1..Len(u) : u[i] \in Digits \cup {"."}
           /\ Cardinality(dots) <= 1
           /\ \E i \in 1..Len(u) : u[i] \in Digits

\* a text that starts with a number, whatever follows it
LeadsWithNumber(s) ==
    LET t == TrimStart(s)
        u == IF t # <<>> /\ t[1] \in {"-", "+"} THEN Tail(t) ELSE t
    IN  \/ StartsWith(u, InfinityText)
        \/ u # <<>> /\ u[1] \in Digits
        \/ Len(u) >= 2 /\ u[1] = "." /\ u[2] \in Digits

Missing(v) == v = Undef
NonNumeric(v) ==
    v # Undef /\ v.t # "number" /\ ~(v.t = "string" /\ IsNumberText(v.s))
\* a value that is falsy, or from which no number can be read at all
Unreadable(v) ==
    \/ v.t \in {"undefined", "null", "boolean"}
    \/ v.t = "number" /\ (v.k = "NaN" \/ (v.k = "finite" /\ v.m = 0))
    \/ v.t = "string" /\ ~LeadsWithNumber(v.s)

\* C2 as stated: a record that lacks py or px, or holds a non-numeric value in
\* either, normalizes to the bare rejection {isValid: false} and nothing is thrown.
C2_NonNumericRejected ==
    (NormRan /\ (Missing(RawPy) \/ Missing(RawPx) \/ NonNumeric(RawPy) \/ NonNumeric(RawPx)))
        => norm.out = Rejected

\* C2 amended: a record in which py or px is missing or falsy, or is a value that
\* starts with no number (parseFloat gives NaN), normalizes to the bare rejection
\* {isValid: false}, with no other field, and nothing is thrown.
C2_UnreadableRejected ==
    (NormRan /\ (Unreadable(RawPy) \/ Unreadable(RawPx))) => norm.out = Rejected

\* a record with a good py, a px that is not a number and a flavorType that is
\* no text was rejected, and nothing was thrown
C2_Witness ==
    /\ NormRan
    /\ RawPy = Str(Text2503)
    /\ RawPx = Str(TextBad)
    /\ RawFlavor = Num(7, 0)
    /\ norm.out = Rejected

HasSpecialShape(v) == v.t = "string" /\ Includes(v.s, SpecialShapeText)

\* C4 as stated: a record with valid coordinates whose flavorType contains the
\* special-shape text has isSpecialShape = true, and the icon renderMarkers picks
\* for it is blue-striped or red-striped, whatever its markerColor is.
C4_SpecialShapeIsStriped ==
    (IsStore(norm.out) /\ HasSpecialShape(RawFlavor) /\ norm.icon # NoIcon)
        => /\ norm.out.isSpecialShape
           /\ norm.icon \in {MARKERS_BLUE_STRIPED, MARKERS_RED_STRIPED}

ContainsRed(v) == v.t = "string" /\ Includes(v.s, RedText)

\* C5: a normalized record has displayColor COLORS.RED exactly when its raw
\* markerColor contains "red", and COLORS.BLUE when markerColor is absent or
\* does not contain "red"; the special-shape flag plays no part.
C5_DisplayColorByRed ==
    IsStore(norm.out) =>
        /\ ContainsRed(RawColor) => norm.out.displayColor = COLORS_RED
        /\ ~ContainsRed(RawColor) => norm.out.displayColor = COLORS_BLUE

\* a special-shape record with a red marker colour got the red display colour
C5_Witness ==
    /\ IsStore(norm.out)
    /\ norm.out.isSpecialShape
    /\ RawColor = Str(MARKERS_RED)
    /\ norm.out.displayColor = COLORS_RED

-----------------------------------------------------------------------------
(* Claims on ingestion *)

IngestRan == "response" \in DOMAIN ingest /\ ingest.message # NoMessage
IngestRaw == ingest.response.rawData
IngestOk == IngestRan /\ ingest.response.status = "ok"

\* the accepted shapes: {keys: sequence, data: sequence} or a bare sequence
AcceptedShape(rawData) == IsColumnar(rawData) \/ isArray(rawData)

\* the records of an accepted payload, in source order
SourceRecords(rawData) ==
    IF IsColumnar(rawData) THEN ZippedPayload(rawData).a ELSE rawData.a

NormalizedRecords(rawData) ==
    [i \in 1..Len(SourceRecords(rawData)) |->
        normalizeStoreData(SourceRecords(rawData)[i], workerConfig)]

RejectedCount(rawData) ==
    Cardinality({i \in 1..Len(SourceRecords(rawData)) : NormalizedRecords(rawData)[i] = Rejected})

\* C3: the stores list delivered for an accepted payload is the subsequence of
\* the source records that normalize as valid, in source order; its length is the
\* input length minus the number of rejected records; an empty input is answered
\* with SUCCESS and an empty list.
C3_StoresAreValidSubsequence ==
    (IngestOk /\ AcceptedShape(IngestRaw)) =>
        /\ ingest.message.type = "SUCCESS" =>
            /\ ingest.message.payload.stores = SelectSeq(NormalizedRecords(IngestRaw), IsStore)
            /\ Len(ingest.message.payload.stores)
                  = Len(SourceRecords(IngestRaw)) - RejectedCount(IngestRaw)
        /\ SourceRecords(IngestRaw) = <<>> =>
            /\ ingest.message.type = "SUCCESS"
            /\ ingest.message.payload.stores = <<>>

\* a legacy array of a rejected record followed by a valid one was delivered as
\* the valid one alone
C3_Witness ==
    /\ IngestOk
    /\ isArray(IngestRaw)
    /\ Len(IngestRaw.a) = 2
    /\ NormalizedRecords(IngestRaw)[1] = Rejected
    /\ IsStore(NormalizedRecords(IngestRaw)[2])
    /\ ingest.message.type = "SUCCESS"
    /\ ingest.message.payload.stores = <<NormalizedRecords(IngestRaw)[2]>>

RowsAreArrays(rawData) == \A i \in 1..Len(rawData.o.data.a) : isArray(rawData.o.data.a[i])

\* C6: for a key list and a list of rows, the columnar payload {keys, data} and
\* the legacy array of the objects that zip keys with each row end the same way
\* and deliver the same ordered list of store records.
C6_ColumnarEqualsLegacy ==
    (IngestOk /\ ingest.zipped # NoMessage /\ IsColumnar(IngestRaw) /\ RowsAreArrays(IngestRaw)) =>
        /\ ingest.message.type = ingest.zipped.type
        /\ ingest.message.type = "SUCCESS" =>
              ingest.message.payload.stores = ingest.zipped.payload.stores

\* both paths delivered the same non-empty list for a key list that names py twice
C6_Witness ==
    /\ IngestOk
    /\ ingest.zipped # NoMessage
    /\ IsColumnar(IngestRaw)
    /\ RowsAreArrays(IngestRaw)
    /\ IngestRaw.o.keys.a = <<"py", "px", "py">>
    /\ ingest.message.type = "SUCCESS"
    /\ ingest.message.payload.stores # <<>>
    /\ ingest.message.payload.stores = ingest.zipped.payload.stores

-----------------------------------------------------------------------------
(* Claims on the fetch cycle *)

FiniteCoordinates(store) ==
    IsStore(store) /\ isFinite(store.latitude) /\ isFinite(store.longitude)

\* C1 as stated: every record in the stores list of a SUCCESS message, and every
\* record renderMarkers put on the map, is a valid store record whose latitude
\* and longitude are finite numbers.
C1_StoresAreFinite ==
    /\ \A i \in CallIds : calls[i].outbox.type = "SUCCESS" =>
          \A k \in 1..Len(calls[i].outbox.payload.stores) :
              FiniteCoordinates(calls[i].outbox.payload.stores[k])
    /\ \A k \in 1..Len(app.markers) : FiniteCoordinates(app.markers[k].store)

Answered(c) == c.response # NoResponse

\* C7 as stated: a cycle whose HTTP response is not successful, or whose parsed
\* payload is neither {keys: sequence, data: sequence} nor a bare sequence, posts
\* no SUCCESS and never resolves the fetchStores promise; once its message is
\* received the promise is rejected.
C7_BadResponseFails ==
    \A i \in CallIds :
        (/\ Answered(calls[i])
         /\ \/ calls[i].response.status \in {"failed", "notok"}
            \/ /\ calls[i].response.status = "ok"
               /\ ~AcceptedShape(calls[i].response.rawData))
        => /\ \A k \in 1..Len(calls[i].posts) : calls[i].posts[k].type = "ERROR"
           /\ calls[i].promise # "resolved"
           /\ calls[i].worker = "terminated" => calls[i].promise = "rejected"

\* the complete result for an answered call
CompleteResult(c, message) ==
    /\ DOMAIN message = {"type", "payload"}
    /\ DOMAIN message.payload = {"stores", "lastUpdated"}
    /\ message = fetchAndProcessStores(workerConfig, c.response)
    /\ AcceptedShape(c.response.rawData) =>
          message.payload.stores = SelectSeq(NormalizedRecords(c.response.rawData), IsStore)

ErrorResult(message) ==
    /\ DOMAIN message = {"type", "error"}
    /\ message.type = "ERROR"

\* C8: a worker that has handled its FETCH_STORES request and whose fetch, if
\* it made one, is answered has posted exactly one message, either SUCCESS with
\* the complete {stores, lastUpdated} or ERROR with an error string; resolve or
\* reject is called at most once per call, once the outcome is received the
\* promise is resolved with that result if it was SUCCESS and rejected if it was
\* ERROR or a worker error event.
C8_OneResponseOneSettlement ==
    \A i \in CallIds :
        LET c == calls[i]
        IN  /\ Len(c.posts) <= 1
            /\ c.worker = "idle" => Len(c.posts) = 1
            /\ Answered(c) => Len(c.posts) = 1
            /\ \A k \in 1..Len(c.posts) :
                  \/ c.posts[k].type = "SUCCESS" /\ CompleteResult(c, c.posts[k])
                  \/ ErrorResult(c.posts[k])
            /\ c.outbox # NoMessage => c.posts = <<c.outbox>>
            /\ c.settled <= 1
            /\ c.promise = "pending" <=> (c.settled = 0 /\ c.worker # "none")
            /\ c.promise = "resolved" =>
                  /\ Len(c.posts) = 1
                  /\ c.posts[1].type = "SUCCESS"
                  /\ c.value = [payload |-> c.posts[1].payload]
            /\ c.promise = "rejected" =>
                  \/ Len(c.posts) = 1 /\ c.posts[1].type = "ERROR"
                  \/ c.posts = <<>> /\ c.value = [error |-> "ErrorEvent"]
            /\ (Len(c.posts) = 1 /\ c.outbox = NoMessage) => c.promise # "pending"

\* one call was rejected by an ERROR message for a request without config and
\* another resolved with the two-row payload's single valid store
C8_Witness ==
    \E i, j \in CallIds :
        /\ ~calls[i].config
        /\ calls[i].promise = "rejected"
        /\ calls[i].posts = <<Error("Configuration missing in worker")>>
        /\ calls[j].promise = "resolved"
        /\ calls[j].settled = 1
        /\ IsColumnar(calls[j].response.rawData)
        /\ Len(calls[j].response.rawData.o.data.a) = 2
        /\ Len(calls[j].value.payload.stores) = 1

\* C9: once a fetchStores call has received its outcome (a SUCCESS or ERROR
\* message, or a worker error event) its worker is terminated, so when every call
\* made has received its outcome no live worker remains.
C9_WorkerTerminated ==
    /\ \A i \in CallIds : calls[i].settled > 0 => calls[i].worker = "terminated"
    /\ (\A i \in CallIds : calls[i].worker # "none" => calls[i].promise # "pending")
          => \A i \in CallIds : ~Live(calls[i])

\* two cycles are over, one by an error event and one by a SUCCESS message, and
\* both workers are terminated
C9_Witness ==
    \E i, j \in CallIds :
        /\ calls[i].value = [error |-> "ErrorEvent"]
        /\ calls[i].worker = "terminated"
        /\ calls[j].promise = "resolved"
        /\ calls[j].worker = "terminated"
        /\ \A k \in CallIds : calls[k].worker \in {"none", "terminated"}

-----------------------------------------------------------------------------
(* Claims on location errors *)

\* C10 as stated: _handleLocationError calls notificationService.show only for a
\* request made with isManualRequest = true; a failure of the passive
\* locateUser() of App.init is never shown.
C10_PassiveFailureIsSilent ==
    \A shown \in loc.toastedFor : shown.isManualRequest

-----------------------------------------------------------------------------
(* Claims on the location code *)

\* C11: after any sequence of locateUser outcomes and of watchPosition and
\* clearWatch calls on the service, at most one watch registered with the
\* geolocation API is not cancelled, and it is the one watchId names.
C11_AtMostOneWatch ==
    /\ Cardinality(loc.watches) <= 1
    /\ loc.watches = IF loc.watchId = NoWatch THEN {} ELSE {loc.watchId}

\* a third watch was registered, by locateUser and by the service's own caller,
\* and it is the only one left
C11_Witness ==
    /\ loc.registered = 3
    /\ loc.direct >= 1
    /\ loc.asked >= 1
    /\ loc.watches = {3}

\* C12: the map holds no user marker before the first position arrives and
\* exactly one afterwards, placed at the position that arrived last, whether
\* it came from a one-shot request or from the watch.
C12_SingleUserMarker ==
    /\ loc.userMarkers <= 1
    /\ loc.arrived = NoPosition => loc.userMarkers = 0
    /\ loc.arrived # NoPosition =>
          /\ loc.userMarkers = 1
          /\ loc.userPosition = loc.arrived

\* the one-shot request put the marker at one position and centred the map
\* there, then the watch moved the marker to another
C12_Witness ==
    /\ loc.view = "here"
    /\ loc.arrived = "there"
    /\ loc.userPosition = "there"
    /\ loc.userMarkers = 1
    /\ loc.watches # {}

-----------------------------------------------------------------------------
(* Claims on the marker layer *)

\* C13: after renderMarkers on an initialized map the layer holds, in order,
\* exactly one marker per record of the last argument, at that record's
\* coordinates and with its markerColor, and nothing from earlier calls.
C13_LayerIsLastRender ==
    /\ app.renders = 0 => app.markers = <<>>
    /\ app.renders > 0 =>
          /\ Len(app.markers) = Len(app.lastStores)
          /\ \A i \in 1..Len(app.markers) :
                /\ app.markers[i].store = app.lastStores[i]
                /\ app.markers[i].latitude = app.lastStores[i].latitude
                /\ app.markers[i].longitude = app.lastStores[i].longitude
                /\ app.markers[i].markerColor = app.lastStores[i].markerColor

\* the second renderMarkers call was made with a single record and the layer
\* holds its marker alone
C13_Witness ==
    /\ app.renders = 2
    /\ Len(app.lastStores) = 1
    /\ Len(app.markers) = 1
    /\ app.markers[1].store = app.lastStores[1]

\* the members of the cluster whose markerColor contains 'red'
DualMembers ==
    {i \in app.cluster.members : Includes(app.markers[i].markerColor.s, RedText)}

\* C14: for a cluster of n markers of which d have a markerColor containing
\* 'red', the icon class is red iff d > n/2, blue iff d < n/2 and split iff
\* d = n/2; a cluster of odd size is never split.
C14_ClusterClass ==
    app.cluster # NoCluster =>
        LET n == Cardinality(app.cluster.members)
            d == Cardinality(DualMembers)
        IN  /\ app.cluster.className = "marker-cluster-red" <=> 2 * d > n
            /\ app.cluster.className = "marker-cluster-blue" <=> 2 * d < n
            /\ app.cluster.className = "marker-cluster-split" <=> 2 * d = n
            /\ n % 2 = 1 => app.cluster.className # "marker-cluster-split"

\* a cluster of one red-striped and one other marker got the split class
C14_Witness ==
    /\ app.cluster # NoCluster
    /\ Cardinality(app.cluster.members) = 2
    /\ Cardinality(DualMembers) = 1
    /\ app.cluster.className = "marker-cluster-split"


-----------------------------------------------------------------------------
(* Claims on the popup *)

PopupBuilt == norm.popup # NoPopup

\* the escape of one character
Escaped(c) ==
    CASE c = "&" -> Amp
      [] c = "<" -> Lt
      [] c = ">" -> Gt
      [] c = "\"" -> Quot
      [] c = "'" -> Apos
      [] OTHER -> <<c>>

\* every character of s escaped once, in one pass
RECURSIVE EscapedOnce(_)
EscapedOnce(s) == IF s = <<>> THEN <<>> ELSE Escaped(Head(s)) \o EscapedOnce(Tail(s))

Raw(s, chars) == \E i \in 1..Len(s) : s[i] \in chars

\* C15 as stated: wherever the popup embeds a text of the store, the link's
\* href included, the text went through the escape of & < > " ' and holds no
\* raw < > " or ' taken from the input.
C15_NoRawMarkup ==
    PopupBuilt =>
        /\ ~Raw(norm.popup.href, {"<", ">", "\"", "'"})
        /\ ~Raw(norm.popup.name, {"<", ">", "\"", "'"})
        /\ ~Raw(norm.popup.address, {"<", ">", "\"", "'"})
        /\ ~Raw(norm.popup.phone, {"<", ">", "\"", "'"})
        /\ norm.popup.flavor \in
              {EscapedOnce(norm.store.flavorType.s),
               ReplaceFirst(EscapedOnce(norm.store.flavorType.s), SpaceParen, BreakParen)}

\* C15 amended: the link text, the address and the phone are the store's texts
\* with each of & < > " ' escaped exactly once and hold no raw < > " '; the
\* flavor line is the same, with its first ' (' turned into '<br>(' for a
\* special shape; the href holds encodeURIComponent(name), which has no raw
\* < > " & but keeps an apostrophe of the name as it is.
C15_EscapedOnceOutsideHref ==
    PopupBuilt =>
        /\ norm.popup.name = EscapedOnce(norm.store.name.s)
        /\ norm.popup.address = EscapedOnce(norm.store.address.s)
        /\ norm.popup.phone = EscapedOnce(norm.store.phone.s)
        /\ norm.popup.flavor =
              IF norm.store.isSpecialShape
              THEN ReplaceFirst(EscapedOnce(norm.store.flavorType.s), SpaceParen, BreakParen)
              ELSE EscapedOnce(norm.store.flavorType.s)
        /\ ~Raw(norm.popup.name, {"<", ">", "\"", "'"})
        /\ ~Raw(norm.popup.address, {"<", ">", "\"", "'"})
        /\ ~Raw(norm.popup.phone, {"<", ">", "\"", "'"})
        /\ ~norm.store.isSpecialShape => ~Raw(norm.popup.flavor, {"<", ">", "\"", "'"})
        /\ ~Raw(norm.popup.href, {"<", ">", "\"", "&"})
        /\ Raw(norm.popup.href, {"'"}) <=> Raw(norm.store.name.s, {"'"})

\* the popup of a store named <' : the link text is &lt;&#039; and the href
\* ends in %3C'
C15_Witness ==
    /\ PopupBuilt
    /\ norm.store.name = Str(<<"<", "'">>)
    /\ norm.popup.name = Lt \o Apos
    /\ norm.popup.href = MapsSearchUrl \o <<"%", "3", "C", "'">>
    /\ norm.store.isSpecialShape
    /\ norm.store.flavorType = Str(<<"a", " ", "(", "a", ")">>)
    /\ norm.popup.flavor = <<"a", "<", "b", "r", ">", "(", "a", ")">>


-----------------------------------------------------------------------------
(* Claims on notifications *)

\* the show calls before the i-th that displayed their message
DisplayedBefore(i) == {j \in 1..(i - 1) : notif.log[j].displayed}

LastDisplayedBefore(i) ==
    CHOOSE j \in DisplayedBefore(i) : \A k \in DisplayedBefore(i) : k <= j

\* C16: a show call is suppressed exactly when its message equals the message
\* displayed last and less than 2000 ms have passed since that message was
\* displayed; suppressed calls in between do not count.
C16_SuppressedExactlyInWindow ==
    \A i \in 1..Len(notif.log) :
        ~notif.log[i].displayed <=>
            /\ DisplayedBefore(i) # {}
            /\ notif.log[LastDisplayedBefore(i)].message = notif.log[i].message
            /\ notif.log[i].t - notif.log[LastDisplayedBefore(i)].t < DUPLICATE_WINDOW

\* the same message was displayed, suppressed one tick later inside the
\* window and displayed again at the end of the window counted from the first
C16_Witness ==
    /\ Len(notif.log) >= 3
    /\ notif.log[1].displayed
    /\ ~notif.log[2].displayed
    /\ notif.log[3].displayed
    /\ notif.log[1].message = notif.log[3].message
    /\ notif.log[2].t > notif.log[1].t
    /\ notif.log[3].t - notif.log[2].t < DUPLICATE_WINDOW
    /\ notif.log[3].t - notif.log[1].t >= DUPLICATE_WINDOW


-----------------------------------------------------------------------------
(* Claims on the page's startup *)

FetchFailed == app.pc = "done" /\ calls[1].promise = "rejected"
FetchSucceeded == app.pc = "done" /\ calls[1].promise = "resolved"

C18_LocationNeverBlocks ==
    /\ app.pc # "new" => calls[1].worker # "none" /\ app.markersLayer
    /\ calls[1].promise = "resolved" =>
          /\ app.pc = "done"
          /\ app.renders = 1
          /\ Len(app.markers) = Len(calls[1].value.payload.stores)
          /\ \A k \in 1..Len(app.markers) :
                app.markers[k].store = calls[1].value.payload.stores[k]
    /\ calls[1].promise = "rejected" =>
          /\ app.pc = "done"
          /\ app.markersLayer
          /\ app.renders = 0
          /\ app.markers = <<>>
          /\ app.overlayHidden

\* the fetch resolved and its store is on the map while the startup location
\* request is still unanswered
C18_Witness ==
    /\ calls[1].promise = "resolved"
    /\ Len(app.markers) = 1
    /\ loc.pending = <<FALSE>>
    /\ loc.asked = 1
    /\ loc.userMarkers = 0


\* C19: no single record makes an accepted-shape payload fail: for every
\* columnar or legacy payload fetched with an ok status, whatever the fields of
\* its records are (wrong-typed fields, a null element, a null or short row),
\* the cycle ends in SUCCESS.
C19_RecordsNeverFail ==
    (IngestOk /\ AcceptedShape(IngestRaw)) => ingest.message.type = "SUCCESS"


\* the message the lookup table names for an error: the not-supported failure,
\* the three geolocation codes, and the unknown-failure message for the rest
TableMessage(error) ==
    IF error.message = "GEOLOCATION_NOT_SUPPORTED" THEN "LOCATION_NOT_SUPPORTED"
    ELSE IF error = PositionError(1) THEN "LOCATION_DENIED"
    ELSE IF error = PositionError(2) THEN "LOCATION_UNAVAILABLE"
    ELSE IF error = PositionError(3) THEN "LOCATION_TIMEOUT"
    ELSE "LOCATION_UNKNOWN_ERROR"

\* C20: the message shown for a location error is a fixed lookup: denied,
\* unavailable and timeout for the three geolocation codes, not-supported for
\* an unsupported API, and the unknown-failure message for every other error
\* object, one without a geolocation error code included.
C20_FixedLookup ==
    \A c \in loc.caught : c.message = TableMessage(c.error)


-----------------------------------------------------------------------------
(* Claims on the service worker *)

\* C21: a request whose path ends in stores.json is answered with the network's
\* response whenever the network fetch resolves, and from the cache only when it
\* rejects, in which case an entry the cache holds is what is served; every
\* other request is answered from the cache when the cache holds an entry, and
\* reaches the network only when it holds none.
C21_NetworkFirstThenCacheFirst ==
    \A i \in 1..Len(sw.answered) :
        LET a == sw.answered[i]
        IN  IF endsWith(a.path, StoresJson)
            THEN /\ a.net # "none"
                 /\ a.net = "resolved" => a.source = "network" /\ a.found = NoResponseYet
                 /\ a.source = "cache" => a.net = "rejected"
                 /\ (a.net = "rejected" /\ a.found # NoEntry) =>
                        a.source = "cache" /\ a.response = a.found
            ELSE /\ a.found # NoEntry => a.source = "cache" /\ a.response = a.found /\ a.net = "none"
                 /\ a.net # "none" => a.found = NoEntry

\* the data file came from the network with body 2 and was stored, and a later
\* request whose network fetch failed was served that body from the cache
C21_Witness ==
    /\ Len(sw.answered) = 2
    /\ sw.answered[1].path = DataPath
    /\ sw.answered[1].source = "network"
    /\ sw.answered[1].response = NetworkResponse(TRUE, 2)
    /\ sw.answered[2].path = DataPath
    /\ sw.answered[2].net = "rejected"
    /\ sw.answered[2].source = "cache"
    /\ sw.answered[2].response = CachedResponse(2)
    /\ sw.cache[BundlePath] = NoEntry


-----------------------------------------------------------------------------
(* Claims on the delivered timestamp *)

\* the last_updated a value carries, the empty string when it carries none
CarriedLastUpdated(v) ==
    IF v.t = "object" /\ "last_updated" \in DOMAIN v.o /\ v.o["last_updated"] # Undef
    THEN v.o["last_updated"]
    ELSE Str(<<>>)

\* C22: the delivered lastUpdated is the payload root's last_updated for a
\* columnar payload and the first element's last_updated for a legacy array,
\* the empty string when there is none; the first element of a legacy array is
\* still normalized and kept or dropped like the others.
C22_LastUpdatedSource ==
    (IngestOk /\ ingest.message.type = "SUCCESS") =>
        /\ IsColumnar(IngestRaw) =>
              ingest.message.payload.lastUpdated = CarriedLastUpdated(IngestRaw)
        /\ isArray(IngestRaw) =>
              /\ ingest.message.payload.lastUpdated
                    = (IF IngestRaw.a = <<>> THEN Str(<<>>)
                       ELSE CarriedLastUpdated(IngestRaw.a[1]))
              /\ ingest.message.payload.stores
                    = SelectSeq(NormalizedRecords(IngestRaw), IsStore)

\* a legacy array whose first element carries last_updated and is valid was
\* delivered with that timestamp and with the first element's store first
C22_Witness ==
    /\ IngestOk
    /\ isArray(IngestRaw)
    /\ Len(IngestRaw.a) = 2
    /\ CarriedLastUpdated(IngestRaw.a[1]) = Str(Text2024)
    /\ ingest.message.type = "SUCCESS"
    /\ ingest.message.payload.lastUpdated = Str(Text2024)
    /\ Len(ingest.message.payload.stores) = 2
    /\ ingest.message.payload.stores[1] = NormalizedRecords(IngestRaw)[1]


-----------------------------------------------------------------------------
(* Claims on the position watch *)

\* C23: a watch is registered only after a one-shot request has succeeded:
\* the registrations made by locateUser are as many as the one-shot requests
\* answered with a position (beside those of the watchPosition calls made on
\* the service itself), so each success registers exactly one watch and a
\* failed request, whatever its error, registers none.
C23_WatchOnlyAfterSuccess ==
    /\ loc.registered = loc.succeeded + (IF loc.supported THEN loc.direct ELSE 0)
    /\ loc.succeeded + Len(loc.pending) <= loc.asked
    /\ loc.succeeded = 0 /\ loc.direct = 0 => loc.watches = {} /\ loc.watchId = NoWatch

\* of three locateUser calls two were answered with a position and one with
\* an error: two watches were registered, the second replacing the first
C23_Witness ==
    /\ loc.asked = 3
    /\ loc.succeeded = 2
    /\ loc.failedFor # {}
    /\ loc.pending = <<>>
    /\ loc.direct = 0
    /\ loc.registered = 2
    /\ loc.watches = {2}

\* C24: clearWatch is idempotent: with no active watch it changes nothing, and
\* called again after a call it changes nothing more: watchId is NoWatch and
\* the watch was cancelled on the geolocation API once.
C24_ClearWatchIdempotent ==
    /\ loc.watchId = NoWatch => clearWatch(loc) = loc
    /\ clearWatch(loc).watchId = NoWatch
    /\ clearWatch(clearWatch(loc)) = clearWatch(loc)
    /\ clearWatch(loc).cancelled = loc.cancelled + (IF loc.watchId = NoWatch THEN 0 ELSE 1)
    /\ loc.cancelled = loc.registered - Cardinality(loc.watches)
    /\ loc.clears > 0 /\ loc.registered = 0 => loc.cancelled = 0

\* clearWatch was called three times on the service around one registration:
\* the one watch is gone, was cancelled once, and watchId is NoWatch
C24_Witness ==
    /\ loc.clears = 3
    /\ loc.registered = 1
    /\ loc.cancelled = 1
    /\ loc.watches = {}
    /\ loc.watchId = NoWatch


-----------------------------------------------------------------------------
(* Claims on the loading overlay *)

\* C25: the loading overlay is shown only while the ingestion cycle is in
\* flight: while App.init awaits fetchStores it is shown, and once the promise
\* is settled, resolved or rejected, it is hidden and stays hidden.
C25_OverlayOnlyWhileFetching ==
    /\ app.pc = "awaiting" => ~app.overlayHidden /\ calls[1].promise = "pending"
    /\ calls[1].promise \in {"resolved", "rejected"} => app.overlayHidden /\ app.pc = "done"
    /\ app.pc = "done" => app.overlayHidden

\* the fetch failed, the failure was notified and the overlay is hidden
C25_Witness ==
    /\ calls[1].promise = "rejected"
    /\ app.pc = "done"
    /\ Len(app.notified) = 1
    /\ app.markers = <<>>
    /\ app.overlayHidden
    /\ now > StartTime


-----------------------------------------------------------------------------
(* Claims on the toast container *)

\* C26: after any interleaving of show calls and timer callbacks the container
\* holds at most one toast, the one currentToast refers to; the current toast
\* is in the container and is hidden only by its own TOAST_TIMEOUT timer, so
\* a timer of a replaced toast never hides, removes or clears a newer one.
C26_OneToast ==
    /\ Cardinality(notif.toasts) <= 1
    /\ \A x \in notif.toasts : x.id = notif.currentToast
    /\ notif.currentToast # NoToast => \E x \in notif.toasts : x.id = notif.currentToast
    /\ \A x \in notif.toasts :
          ~x.show => \E timer \in notif.timers : timer.toast = x.id /\ timer.kind = "remove"
    /\ \A x \in notif.toasts :
          x.show => \E timer \in notif.timers : timer.toast = x.id /\ timer.kind = "hide"

\* the first toast was replaced at the time its TOAST_TIMEOUT timer was due,
\* its timers have fired since, and the second toast is still current and shown
C26_Witness ==
    /\ notif.created = 2
    /\ notif.log[1].t = StartTime
    /\ notif.lastMessageTime = StartTime + TOAST_TIMEOUT
    /\ now > StartTime + TOAST_TIMEOUT
    /\ \A timer \in notif.timers : timer.toast = 2
    /\ notif.currentToast = 2
    /\ notif.toasts = {[id |-> 2, text |-> "ONLINE", type |-> "info", show |-> TRUE]}


InContainer(id) == \E x \in notif.toasts : x.id = id

\* C27: every toast show displays is eventually removed from the container, by
\* a later show call or by its own timers, and currentToast then no longer
\* refers to it.
C27_ToastEventuallyRemoved ==
    \A id \in 1..MaxLiveShows :
        InContainer(id) ~> (~InContainer(id) /\ notif.currentToast # id)

\* the only toast shown was hidden and removed by its own two timers
C27_Witness ==
    /\ notif.created = 1
    /\ Len(notif.log) = 1
    /\ notif.toasts = {}
    /\ notif.currentToast = NoToast
    /\ notif.timers = {}
    /\ now >= notif.log[1].t + TOAST_TIMEOUT + FADE_OUT


-----------------------------------------------------------------------------
(* Claims on the locate control *)

\* C28: the locate control is loading exactly while a one-shot location
\* request is in flight; a click while it is loading starts nothing, so no
\* second one-shot request is pending beside another.
C28_LoadingWhileInFlight ==
    /\ loc.buttonLoading <=> loc.pending # <<>>
    /\ Len(loc.pending) <= 1
    /\ loc.buttonLoading => loc.button

\* the startup request was answered with a position, and a later click
\* started the one request now in flight
C28_Witness ==
    /\ loc.asked = 2
    /\ loc.succeeded = 1
    /\ loc.pending = <<TRUE>>
    /\ loc.buttonLoading
    /\ loc.userMarkers = 1


-----------------------------------------------------------------------------
(* Claims on the location-error window *)

\* a step in which a one-shot request ends with an error
ErrorHandled == Len(loc'.pending) < Len(loc.pending) /\ loc'.succeeded = loc.succeeded

\* C29: apart from the not-supported message, at most one location-error
\* toast is shown per 5000 ms window: an error handled less than 5000 ms after
\* the last toast was shown is dropped, with no toast and lastErrorTime
\* unchanged, whatever its message; an error handled later shows a toast and
\* starts the next window.
C29_OneErrorToastPerWindow ==
    [][ /\ ErrorHandled =>
              IF now - loc.lastErrorTime < ERROR_WINDOW
              THEN /\ notif' = notif
                   /\ loc'.lastErrorTime = loc.lastErrorTime
                   /\ loc'.toastedFor = loc.toastedFor
              ELSE /\ loc'.lastErrorTime = now
                   /\ notif'.created = notif.created + 1
        /\ loc'.lastErrorTime # loc.lastErrorTime => ErrorHandled
      ]_vars

\* two one-shot requests failed, the second one 3000 ms after the first and
\* inside its window: one toast was shown and lastErrorTime is the first time
C29_Witness ==
    /\ loc.supported
    /\ loc.asked = 2
    /\ loc.succeeded = 0
    /\ loc.pending = <<>>
    /\ loc.failedFor = {TRUE, FALSE}
    /\ loc.lastErrorTime = StartTime
    /\ now = StartTime + TickMs
    /\ notif.created = 1
    /\ Cardinality(loc.toastedFor) = 1

====
